---- MODULE Spec2Model ----
(***************************************************************************)
(* A model of the HillCoordinate class of src/hill_model.py: the summand   *)
(* structure of the interaction function, its derivative tensors           *)
(* (diff_interaction), the chain-rule gradient and Hessian (dx, dx2), and  *)
(* the layout of the flat variable-parameter vector (parse_parameters,     *)
(* diff).                                                                  *)
(*                                                                         *)
(* Python arrays are functions over 0..n-1.  A float is a pair <<n, d>>    *)
(* standing for n/d in lowest terms with d >= 0; d = 0 gives the IEEE      *)
(* special values: <<0,0>> is NaN, <<1,0>> is +inf and <<-1,0>> is -inf.   *)
(* Arithmetic is exact on finite values (rounding is not modelled) and     *)
(* follows IEEE 754 on the special values.                                 *)
(*                                                                         *)
(* The value, first and second x-derivative that Hill component k returns  *)
(* at the call's state and parameter are the inputs compVal[k], compDx[k]  *)
(* and compDx2[k].                                                         *)
(***************************************************************************)
EXTENDS Integers, Sequences, FiniteSets, TLC

VARIABLES
    interactionType,           \* self.interactionType: integer partition of K
    summand,                   \* self.summand: list of lists of component indices
    nComponent,                \* self.nComponent: K
    index,                     \* self.index: global index of this coordinate
    interactionIndex,          \* self.interactionIndex: K global indices
    gamma,                     \* self.gamma (NaN when gamma is variable)
    gammaIsVariable,           \* self.gammaIsVariable
    parameterValues,           \* self.parameterValues: K rows of 4, NaN = variable
    nVarByComponent,           \* self.nVarByComponent
    variableIndexByComponent,  \* self.variableIndexByComponent
    nVariableParameter,        \* self.nVariableParameter
    dimension,                 \* len(x) of the calls: the model's dimension N
    parameter,                 \* the calls' flat variable-parameter vector
    compVal,                   \* H_k at the call's x and parameter
    compDx,                    \* dH_k/dx there
    compDx2,                   \* d2H_k/dx2 there
    component,                 \* a HillComponent instance c: its attributes
    accessor,                  \* class HillComponent: the index each by-name
                               \* accessor (ell, delta, ...) reads
    hillModel,                 \* a HillModel instance: its attributes
    ret                        \* the last call and what it returned or raised

vars == <<interactionType, summand, nComponent, index, interactionIndex, gamma,
          gammaIsVariable, parameterValues, nVarByComponent,
          variableIndexByComponent, nVariableParameter, dimension, parameter,
          compVal, compDx, compDx2, component, accessor, hillModel, ret>>

self == <<interactionType, summand, nComponent, index, interactionIndex, gamma,
          gammaIsVariable, parameterValues, nVarByComponent,
          variableIndexByComponent, nVariableParameter>>

callInputs == <<dimension, parameter, compVal, compDx, compDx2>>

otherObjects == <<component, accessor, hillModel>>

(***************************************************************************)
(* Bounds of the model.                                                    *)
(***************************************************************************)
MaxK == 4          \* components per coordinate in the interaction runs
MaxVal == 1        \* component values are 0..MaxVal
MaxKx == 2         \* components per coordinate in the dx / dx2 runs
MaxDim == 2        \* state dimension N in the dx / dx2 runs
MaxKh == 3         \* components per coordinate in the local-Hessian runs
MaxKp == 3         \* components per coordinate in the parameter-layout runs
MaxOrder == 4      \* diffOrder requested of diff_interaction
MaxN == 3          \* coordinates of a HillModel
MaxKc == 2         \* interaction signs in the constructor runs
MaxPoints == 4     \* grid points gridDensity^N of find_equilibria

(***************************************************************************)
(* Floats.                                                                 *)
(***************************************************************************)
Abs(i) == IF i < 0 THEN -i ELSE i

Sgn(i) == IF i < 0 THEN -1 ELSE IF i = 0 THEN 0 ELSE 1

RECURSIVE GCD(_, _)
GCD(a, b) == IF b = 0 THEN a ELSE GCD(b, a % b)

FNorm(n, d) ==
    IF d = 0 THEN <<Sgn(n), 0>>
    ELSE LET g == GCD(Abs(n), d) IN <<n \div g, d \div g>>

F(i) == <<i, 1>>

NaN == <<0, 0>>

isnan(a) == a = NaN

FNeg(a) == <<-a[1], a[2]>>

FMul(a, b) == FNorm(a[1] * b[1], a[2] * b[2])

FDiv(a, b) ==
    LET n == a[1] * b[2]
        d == a[2] * b[1]
    IN  IF d < 0 THEN FNorm(-n, -d)
        ELSE IF d = 0 /\ b[1] < 0 THEN FNorm(-n, 0)
        ELSE FNorm(n, d)

FAdd(a, b) ==
    IF a[2] = 0 /\ b[2] = 0
    THEN IF a = b THEN a ELSE NaN
    ELSE FNorm(a[1] * b[2] + b[1] * a[2], a[2] * b[2])

FSub(a, b) == FAdd(a, FNeg(b))

(***************************************************************************)
(* Arrays.                                                                 *)
(***************************************************************************)
len(a) == Cardinality(DOMAIN a)

Arrays(n, S) == [0..(n - 1) -> S]

\* np.sum and np.prod of a[lo], ..., a[hi - 1]
RECURSIVE SumRange(_, _, _)
SumRange(a, lo, hi) ==
    IF hi <= lo THEN F(0) ELSE FAdd(SumRange(a, lo, hi - 1), a[hi - 1])

RECURSIVE ProdRange(_, _, _)
ProdRange(a, lo, hi) ==
    IF hi <= lo THEN F(1) ELSE FMul(ProdRange(a, lo, hi - 1), a[hi - 1])

npsum(a) == SumRange(a, 0, len(a))

npprod(a) == ProdRange(a, 0, len(a))

\* np.cumsum of an integer array
RECURSIVE IntSumTo(_, _)
IntSumTo(a, n) == IF n <= 0 THEN 0 ELSE IntSumTo(a, n - 1) + a[n - 1]

cumsum(a) == [i \in DOMAIN a |-> IntSumTo(a, i + 1)]

Min(a, b) == IF a < b THEN a ELSE b

\* a[lo:hi], Python's slice of a list or vector (0 <= lo, hi), clamped to len(a)
Slice(a, lo, hi) ==
    LET l == Min(lo, len(a))
        h == Min(hi, len(a))
    IN  [i \in 0..(h - l - 1) |-> a[l + i]]

\* the entries of a list as a set
Members(L) == {L[i] : i \in DOMAIN L}

(***************************************************************************)
(* HillComponent                                                           *)
(***************************************************************************)
PARAMETER_NAMES ==
    [j \in 0..3 |-> <<"ell", "delta", "theta", "hillCoefficient">>[j + 1]]

Names == {PARAMETER_NAMES[j] : j \in 0..3}

\* the members of a set of integers as a list in increasing order
RECURSIVE Ascending(_)
Ascending(S) ==
    IF S = {} THEN <<>>
    ELSE LET top == CHOOSE x \in S : \A y \in S : y <= x
             front == Ascending(S \ {top})
         IN  [i \in 0..len(front) |-> IF i < len(front) THEN front[i] ELSE top]

\* the loop over kwargs that skips a name it does not know
RECURSIVE fix_parameters_lenient(_, _)
fix_parameters_lenient(kwargs, n) ==
    IF n = 0
    THEN [parameterValues |-> [j \in 0..3 |-> F(0)],
          parameterCallIndex |-> [name \in Names |->
                                    CHOOSE j \in 0..3 : PARAMETER_NAMES[j] = name],
          attribute |-> <<>>,
          raised |-> FALSE]
    ELSE LET before == fix_parameters_lenient(kwargs, n - 1)
             kw == kwargs[n - 1]
             set == [name \in (DOMAIN before.attribute) \cup {kw.name} |->
                        IF name = kw.name THEN kw.value
                        ELSE before.attribute[name]]
         IN  IF kw.name \notin DOMAIN before.parameterCallIndex
             THEN [before EXCEPT !.attribute = set]
             ELSE [parameterValues |->
                       [before.parameterValues
                           EXCEPT ![before.parameterCallIndex[kw.name]] = kw.value],
                   parameterCallIndex |->
                       [name \in (DOMAIN before.parameterCallIndex) \ {kw.name} |->
                           before.parameterCallIndex[name]],
                   attribute |-> set,
                   raised |-> FALSE]

\* __init__, the loop over kwargs: after the first n keyword arguments.
\* parameterCallIndex is the dict of the names still callable; a name that
\* is not a key of it raises KeyError, after setattr has taken place
RECURSIVE fix_parameters(_, _)
fix_parameters(kwargs, n) ==
    IF n = 0
    THEN [parameterValues |-> [j \in 0..3 |-> F(0)],
          parameterCallIndex |-> [name \in Names |->
                                    CHOOSE j \in 0..3 : PARAMETER_NAMES[j] = name],
          attribute |-> <<>>,
          raised |-> FALSE]
    ELSE LET before == fix_parameters(kwargs, n - 1)
             kw == kwargs[n - 1]
             set == [name \in (DOMAIN before.attribute) \cup {kw.name} |->
                        IF name = kw.name THEN kw.value
                        ELSE before.attribute[name]]
         IN  IF before.raised THEN before
             ELSE IF kw.name \notin DOMAIN before.parameterCallIndex
             THEN [before EXCEPT !.attribute = set, !.raised = TRUE]
             ELSE [parameterValues |->
                       [before.parameterValues
                           EXCEPT ![before.parameterCallIndex[kw.name]] = kw.value],
                   parameterCallIndex |->
                       [name \in (DOMAIN before.parameterCallIndex) \ {kw.name} |->
                           before.parameterCallIndex[name]],
                   attribute |-> set,
                   raised |-> FALSE]

\* no instance
NoComponent == [constructed |-> FALSE]

\* HillComponent(interactionSign, **kwargs): the attributes of the instance.
\* The dict keeps the order of PARAMETER_NAMES, so keys() and values() list
\* the callable names and their indices in that order
HillComponent(kwargs) ==
    LET fixed == fix_parameters(kwargs, len(kwargs))
        callable == Ascending({fixed.parameterCallIndex[name] :
                                  name \in DOMAIN fixed.parameterCallIndex})
        variableParameters == [i \in DOMAIN callable |-> PARAMETER_NAMES[callable[i]]]
        notCallable == Ascending({j \in 0..3 :
                                     PARAMETER_NAMES[j] \notin Members(variableParameters)})
    IN  IF fixed.raised THEN [constructed |-> FALSE, raised |-> TRUE]
        ELSE [constructed |-> TRUE,
              raised |-> FALSE,
              parameterValues |-> fixed.parameterValues,
              variableParameters |-> variableParameters,
              parameterCallIndex |-> callable,
              fixedParameter |-> [i \in DOMAIN notCallable |->
                                     PARAMETER_NAMES[notCallable[i]]],
              attribute |-> fixed.attribute]

NoAccessor == -1   \* the class has no attribute of that name

\* the class before any instance is constructed
NoAccessors == [name \in Names |-> NoAccessor]

\* __init__, the loop over add_parameter_call: setattr on the class, so the
\* accessor of a name reads the index of the instance constructed last
add_parameter_calls(class, instance) ==
    IF ~instance.constructed THEN class
    ELSE [name \in Names |->
            IF name \in Members(instance.variableParameters)
            THEN CHOOSE idx \in DOMAIN instance.variableParameters :
                     instance.variableParameters[idx] = name
            ELSE class[name]]

\* curry_parameters with the vector written into the first slots
curry_parameters_front(c, p) ==
    IF len(p) = len(c.parameterCallIndex) \/ len(p) = 1
    THEN [kind |-> "ndarray",
          value |-> [j \in 0..3 |->
                        IF j < len(c.parameterCallIndex)
                        THEN p[IF len(p) = 1 THEN 0 ELSE j]
                        ELSE c.parameterValues[j]],
          local |-> <<>>]
    ELSE [kind |-> "ValueError", value |-> <<>>, local |-> <<>>]

\* curry_parameters: parameterEvaluation[self.parameterCallIndex] = parameter.
\* numpy broadcasts a vector of one entry and raises ValueError on any other
\* length that is not the number of indices
curry_parameters(c, p) ==
    IF len(p) = len(c.parameterCallIndex) \/ len(p) = 1
    THEN [kind |-> "ndarray",
          value |-> [j \in 0..3 |->
                        IF j \in Members(c.parameterCallIndex)
                        THEN p[IF len(p) = 1 THEN 0
                               ELSE CHOOSE i \in DOMAIN c.parameterCallIndex :
                                        c.parameterCallIndex[i] = j]
                        ELSE c.parameterValues[j]],
          local |-> <<>>]
    ELSE [kind |-> "ValueError", value |-> <<>>, local |-> <<>>]

\* self.parameterValues after a curry_parameters that writes the vector into
\* the stored array itself
parameterValues_written(c, p) ==
    IF curry_parameters(c, p).kind = "ndarray" THEN curry_parameters(c, p).value
    ELSE c.parameterValues

\* self.parameterValues after curry_parameters: the vector is written into
\* parameterEvaluation, a copy of the stored array
parameterValues_after_curry(c, p) == c.parameterValues

\* self.ell or self.delta in image: the class accessor when the name is
\* variable, the instance attribute when it is fixed
by_name(c, class, name, p) ==
    IF name \in Members(c.variableParameters)
    THEN IF class[name] \in DOMAIN p
         THEN [kind |-> "float", value |-> p[class[name]]]
         ELSE [kind |-> "IndexError", value |-> NaN]
    ELSE [kind |-> "float", value |-> c.attribute[name]]

\* image: np.array([ell, ell + delta])
image(c, class, p) ==
    LET ell == by_name(c, class, "ell", p)
        delta == by_name(c, class, "delta", p)
    IN  IF ell.kind = "IndexError" \/ delta.kind = "IndexError"
        THEN [kind |-> "IndexError", value |-> <<>>, local |-> <<>>]
        ELSE [kind |-> "ndarray",
              value |-> [i \in 0..1 |-> IF i = 0 THEN ell.value
                                        ELSE FAdd(ell.value, delta.value)],
              local |-> <<>>]

\* row2dict: the keyword arguments of a row of the parameter array
row2dict(row) ==
    LET given == Ascending({j \in 0..3 : ~isnan(row[j])})
    IN  [i \in DOMAIN given |->
            [name |-> PARAMETER_NAMES[given[i]], value |-> row[given[i]]]]

\* set_components: the list of Hill components of the coordinate
set_components(pv, K) == [k \in 0..(K - 1) |-> HillComponent(row2dict(pv[k]))]

\* the class after the first n components of the list were constructed
RECURSIVE accessors_after(_, _)
accessors_after(instances, n) ==
    IF n = 0 THEN NoAccessors
    ELSE add_parameter_calls(accessors_after(instances, n - 1), instances[n - 1])

(***************************************************************************)
(* HillCoordinate.__init__                                                 *)
(***************************************************************************)
\* the slices of set_summand all taken from index 0
set_summand_from_zero(type, K) ==
    LET localIndex == [k \in 0..(K - 1) |-> k]
    IN  [i \in 0..(len(type) - 1) |-> Slice(localIndex, 0, cumsum(type)[i])]

\* set_summand: the index partition defined by the interaction type
set_summand(type, K) ==
    LET sumEndpoints == [i \in 0..len(type) |->
                            IF i = 0 THEN 0 ELSE cumsum(type)[i - 1]]
        localIndex == [k \in 0..(K - 1) |-> k]
    IN  [i \in 0..(len(type) - 1) |->
            Slice(localIndex, sumEndpoints[i], sumEndpoints[i + 1])]

count_nonzero_isnan(row) == Cardinality({i \in DOMAIN row : isnan(row[i])})

\* nVarByComponent: the number of NaN entries of each row
count_variable(pv, K) ==
    IF K = 1
    THEN [j \in 0..(K - 1) |->
            Cardinality({c \in (DOMAIN pv) \X (0..3) : isnan(pv[c[1]][c[2]])})]
    ELSE [j \in 0..(K - 1) |-> count_nonzero_isnan(pv[j])]

\* np.cumsum([0] + self.nVarByComponent): the gamma slot left out
offsets_without_gamma(gVar, nVar) ==
    cumsum([i \in 0..len(nVar) |-> IF i = 0 THEN 0 ELSE nVar[i - 1]])

\* [self.gammaIsVariable] + self.nVarByComponent: the counts, not accumulated
offsets_uncumulated(gVar, nVar) ==
    [i \in 0..len(nVar) |-> IF i = 0 THEN (IF gVar THEN 1 ELSE 0) ELSE nVar[i - 1]]

\* np.cumsum([self.gammaIsVariable] + self.nVarByComponent)
offsets(gVar, nVar) ==
    cumsum([i \in 0..len(nVar) |->
               IF i = 0 THEN (IF gVar THEN 1 ELSE 0) ELSE nVar[i - 1]])

total_variable(gVar, nVar) ==
    IntSumTo(nVar, len(nVar)) + (IF gVar THEN 1 ELSE 0)

\* the state a constructor call leaves
Construct(pv, K, type, selfIdx, idx, g) ==
    /\ gammaIsVariable = isnan(g)
    /\ gamma = g
    /\ parameterValues = pv
    /\ nComponent = K
    /\ index = selfIdx
    /\ interactionIndex = idx
    /\ interactionType = type
    /\ summand = set_summand(type, K)
    /\ nVarByComponent = count_variable(pv, K)
    /\ variableIndexByComponent = offsets(isnan(g), count_variable(pv, K))
    /\ nVariableParameter = total_variable(isnan(g), count_variable(pv, K))
    /\ accessor = accessors_after(set_components(pv, K), K)

(***************************************************************************)
(* Summands and the interaction function                                   *)
(***************************************************************************)
nSummand == len(interactionType)

\* summand_index: the first summand that contains the component
summand_index(k) ==
    CHOOSE m \in DOMAIN summand :
        /\ k \in Members(summand[m])
        /\ \A m2 \in DOMAIN summand : k \in Members(summand[m2]) => m <= m2

\* evaluate_summand with m given: the sum of the members' component values
evaluate_summand_m(m) ==
    npsum([i \in DOMAIN summand[m] |-> compVal[summand[m][i]]])

\* evaluate_summand with m = None
evaluate_summand == [m \in DOMAIN summand |-> evaluate_summand_m(m)]

\* np.sum(componentValues) whatever the number of summands
interaction_function_sum(componentValues) == npsum(componentValues)

\* interaction_function: the sum for one summand, else the product of the
\* sums over the members of each summand
interaction_function(componentValues) ==
    IF len(summand) = 1 THEN npsum(componentValues)
    ELSE npprod([m \in DOMAIN summand |->
                   npsum([i \in DOMAIN summand[m] |-> componentValues[summand[m][i]]])])

(***************************************************************************)
(* diff_interaction                                                        *)
(***************************************************************************)
NoIndex == -1      \* diffIndex=None

\* what a call returns or raises, with the locals it leaves behind
Returned(kind, value) == [kind |-> kind, value |-> value, local |-> <<>>]

ReturnedNone == Returned("None", <<>>)

Raised(exception) == Returned(exception, <<>>)

\* the index tuples of a tensor of the given order over the K components
TensorIndex(order) == [1..order -> 0..(nComponent - 1)]

zeros(order) == [t \in TensorIndex(order) |-> F(0)]

ones(n) == [k \in 0..(n - 1) |-> F(1)]

\* nonzero_index built from all tuples of summands instead of the tuples of
\* different summands (itertools.product in place of permutations)
nonzero_index_product(order) ==
    {t \in TensorIndex(order) :
        \E tup \in [1..order -> DOMAIN summand] :
            \A a \in 1..order : t[a] \in Members(summand[tup[a]])}

\* nonzero_index: every index tuple whose entries are drawn from the members
\* of a tuple of pairwise different summands
nonzero_index(order) ==
    {t \in TensorIndex(order) :
        \E tup \in [1..order -> DOMAIN summand] :
            /\ \A a, b \in 1..order : a # b => tup[a] # tup[b]
            /\ \A a \in 1..order : t[a] \in Members(summand[tup[a]])}

\* DxProducts: the full product divided by each summand
DxProducts ==
    LET allSummands == evaluate_summand
        fullProduct == npprod(allSummands)
    IN  [m \in DOMAIN allSummands |-> FDiv(fullProduct, allSummands[m])]

\* DxxProducts = np.outer(DxProducts, 1.0 / allSummands)
DxxProducts ==
    LET allSummands == evaluate_summand
    IN  [rc \in (DOMAIN allSummands) \X (DOMAIN allSummands) |->
            FMul(DxProducts[rc[1]], FDiv(F(1), allSummands[rc[2]]))]

\* the double loop with col starting at row instead of row + 1
cross_summand_fill_from_row(init) ==
    [t \in DOMAIN init |->
        LET row == summand_index(t[1])
            col == summand_index(t[2])
        IN  IF row <= col THEN DxxProducts[<<row, col>>]
            ELSE DxxProducts[<<col, row>>]]

\* the matrix the double loop over row < col fills through np.ix_, both ways
cross_summand_fill(init) ==
    [t \in DOMAIN init |->
        LET row == summand_index(t[1])
            col == summand_index(t[2])
        IN  IF row < col THEN DxxProducts[<<row, col>>]
            ELSE IF col < row THEN DxxProducts[<<col, row>>]
            ELSE init[t]]

\* diffIndex is None, diffOrder == 1
diff_interaction_gradient ==
    IF nSummand = 1
    THEN Returned("ndarray", ones(nComponent))
    ELSE Returned("ndarray",
                  [k \in 0..(nComponent - 1) |-> DxProducts[summand_index(k)]])

\* the order-2 tensor with the two-summand case treated like the all-sum case
diff_interaction_hessian_zero ==
    IF nSummand <= 2
    THEN Returned("ndarray", zeros(2))
    ELSE ReturnedNone

\* diffIndex is None, diffOrder == 2: the last branch fills DpH and ends
\* without a return statement
diff_interaction_hessian ==
    IF nSummand = 1
    THEN Returned("ndarray", zeros(2))
    ELSE IF nSummand = 2
    THEN LET idxArray == nonzero_index(2)
         IN  Returned("ndarray",
                      [t \in TensorIndex(2) |->
                          IF t \in idxArray THEN F(1) ELSE F(0)])
    ELSE LET DpH == cross_summand_fill(zeros(2))
         IN  ReturnedNone

\* diffIndex is None, diffOrder == 3
diff_interaction_third ==
    IF nSummand <= 2
    THEN Returned("ndarray", zeros(3))
    ELSE IF nSummand = 3
    THEN LET idxArray == nonzero_index(3)
         IN  Returned("ndarray",
                      [t \in TensorIndex(3) |->
                          IF t \in idxArray THEN F(1) ELSE F(0)])
    ELSE Raised("KeyboardInterrupt")

\* diffIndex given, diffOrder == 1
diff_interaction_partial(diffIndex) ==
    IF len(interactionType) = 1
    THEN Returned("float", F(1))
    ELSE LET allSummands == evaluate_summand
             I_k == summand_index(diffIndex)
             kept == {m \in 0..(nComponent - 1) : m # I_k}
             factors == [i \in 0..(Cardinality(kept) - 1) |->
                            allSummands[summand_index(diffIndex)]]
         IN  Returned("float", npprod(factors))

diff_interaction(diffOrder, diffIndex) ==
    IF diffIndex = NoIndex
    THEN IF diffOrder = 1 THEN diff_interaction_gradient
         ELSE IF diffOrder = 2 THEN diff_interaction_hessian
         ELSE IF diffOrder = 3 THEN diff_interaction_third
         ELSE ReturnedNone
    ELSE IF diffOrder = 1 THEN diff_interaction_partial(diffIndex)
         ELSE Raised("KeyboardInterrupt")

(***************************************************************************)
(* Calls                                                                   *)
(***************************************************************************)
\* no HillModel instance
NoModel == [constructed |-> FALSE]

Call(op, diffOrder, diffIndex, out) ==
    [op |-> op, diffOrder |-> diffOrder, diffIndex |-> diffIndex,
     kind |-> out.kind, value |-> out.value, local |-> out.local]

NotCalled == Call("__init__", 0, NoIndex, ReturnedNone)

\* one call at a time: a call is made when the previous result was taken
Idle == ret.op = "__init__"

\* the caller takes the result
Discard ==
    /\ ~Idle
    /\ ret' = NotCalled
    /\ UNCHANGED <<self, callInputs, otherObjects>>

DiffInteraction ==
    /\ Idle
    /\ \E diffOrder \in 1..MaxOrder :
       \E diffIndex \in {NoIndex} \cup (0..(nComponent - 1)) :
            ret' = Call("diff_interaction", diffOrder, diffIndex,
                        diff_interaction(diffOrder, diffIndex))
    /\ UNCHANGED <<self, callInputs, otherObjects>>

InteractionFunction ==
    /\ Idle
    /\ ret' = Call("interaction_function", 0, NoIndex,
                   Returned("float", interaction_function(compVal)))
    /\ UNCHANGED <<self, callInputs, otherObjects>>

\* summand_index(componentIdx); the component is recorded as diffIndex
SummandIndex ==
    /\ Idle
    /\ \E componentIdx \in 0..(nComponent - 1) :
          ret' = Call("summand_index", 0, componentIdx,
                      Returned("index", summand_index(componentIdx)))
    /\ UNCHANGED <<self, callInputs, otherObjects>>

\* evaluate_summand(x, parameter, m); m is recorded as diffIndex
EvaluateSummand ==
    /\ Idle
    /\ \E m \in {NoIndex} \cup DOMAIN summand :
          ret' = Call("evaluate_summand", 0, m,
                      IF m = NoIndex THEN Returned("ndarray", evaluate_summand)
                      ELSE Returned("float", evaluate_summand_m(m)))
    /\ UNCHANGED <<self, callInputs, otherObjects>>

(***************************************************************************)
(* Inputs                                                                  *)
(***************************************************************************)
\* the integer partitions of K as ordered lists of positive entries
Partitions(K) ==
    {type \in UNION {[0..(q - 1) -> 1..K] : q \in 1..K} :
        IntSumTo(type, len(type)) = K}

allFixed(K) == [j \in 0..(K - 1) |-> [i \in 0..3 |-> F(1)]]

Values == {F(v) : v \in 0..MaxVal}

\* coordinates whose components take every combination of values
InitInteraction ==
    \E K \in 1..MaxK :
    \E type \in Partitions(K) :
    \E H \in Arrays(K, Values) :
        /\ Construct(allFixed(K), K, type, 0, [k \in 0..(K - 1) |-> k], F(1))
        /\ dimension = K
        /\ parameter = <<>>
        /\ compVal = H
        /\ compDx = [k \in 0..(K - 1) |-> F(0)]
        /\ compDx2 = [k \in 0..(K - 1) |-> F(0)]
        /\ component = NoComponent
        /\ hillModel = NoModel
        /\ ret = NotCalled

NextInteraction ==
    \/ DiffInteraction
    \/ InteractionFunction
    \/ SummandIndex
    \/ EvaluateSummand
    \/ Discard

SpecInteraction == InitInteraction /\ [][NextInteraction]_vars

(***************************************************************************)
(* parse_parameters                                                        *)
(***************************************************************************)
parse_gamma == IF gammaIsVariable THEN parameter[0] ELSE gamma

parameterByComponent ==
    [j \in 0..(nComponent - 1) |->
        Slice(parameter, variableIndexByComponent[j],
              variableIndexByComponent[j + 1])]

(***************************************************************************)
(* dx and dx2                                                              *)
(***************************************************************************)
\* x[self.interactionIndex] raises IndexError when an index is not below len(x)
xLocalInBounds == \A k \in DOMAIN interactionIndex : interactionIndex[k] < dimension

\* the component last written to position g by an assignment through
\* interactionIndex (later entries overwrite earlier ones)
LastAt(g) ==
    CHOOSE k \in DOMAIN interactionIndex :
        /\ interactionIndex[k] = g
        /\ \A k2 \in DOMAIN interactionIndex : interactionIndex[k2] = g => k2 <= k

Targets == Members(interactionIndex)

dx ==
    IF ~xLocalInBounds THEN Raised("IndexError")
    ELSE
    LET dim == dimension
        diffInteraction == diff_interaction(1, NoIndex).value
        DHillComponent == compDx
        chain == [k \in 0..(nComponent - 1) |->
                     FMul(diffInteraction[k], DHillComponent[k])]
        Df == [g \in 0..(dim - 1) |->
                  IF g \in Targets THEN chain[LastAt(g)] ELSE F(0)]
    IN  Returned("ndarray",
                 [g \in 0..(dim - 1) |->
                     IF g = index THEN FSub(Df[g], parse_gamma) ELSE Df[g]])

diag(v) ==
    [t \in [1..2 -> DOMAIN v] |-> IF t[1] = t[2] THEN v[t[1]] ELSE F(0)]

\* the local Hessian D2Nonlinear and the matrix offDiagonal of dx2
dx2_local ==
    LET D2HillComponent == compDx2
    IN  IF nSummand = 1
        THEN [D2Nonlinear |-> diag(D2HillComponent)]
        ELSE
        LET DxProductsByComponent ==
                [k \in 0..(nComponent - 1) |-> DxProducts[summand_index(k)]]
            D2diag == diag([k \in 0..(nComponent - 1) |->
                               FMul(D2HillComponent[k], DxProductsByComponent[k])])
            offDiagonal == cross_summand_fill(zeros(2))
            DHillComponent == compDx
            mixedPartials == [t \in TensorIndex(2) |->
                                 FMul(DHillComponent[t[1]], DHillComponent[t[2]])]
        IN  [D2Nonlinear |->
                [t \in TensorIndex(2) |->
                    FAdd(D2diag[t], FMul(offDiagonal[t], mixedPartials[t]))],
             offDiagonal |-> offDiagonal]

dx2 ==
    IF ~xLocalInBounds THEN Raised("IndexError")
    ELSE
    LET dim == Cardinality(Targets \cup {index})
        D2Nonlinear == dx2_local.D2Nonlinear
    IN  IF \E k \in DOMAIN interactionIndex : interactionIndex[k] >= dim
        THEN [Raised("IndexError") EXCEPT !.local = dx2_local]
        ELSE [Returned("ndarray",
                       [t \in [1..2 -> 0..(dim - 1)] |->
                           IF t[1] \in Targets /\ t[2] \in Targets
                           THEN D2Nonlinear[<<LastAt(t[1]), LastAt(t[2])>>]
                           ELSE F(0)])
              EXCEPT !.local = dx2_local]

Dx ==
    /\ Idle
    /\ ret' = Call("dx", 1, NoIndex, dx)
    /\ UNCHANGED <<self, callInputs, otherObjects>>

Dx2 ==
    /\ Idle
    /\ ret' = Call("dx2", 2, NoIndex, dx2)
    /\ UNCHANGED <<self, callInputs, otherObjects>>

\* the first and second derivatives the components return: two profiles
DerivativeProfiles(K) ==
    {[dx |-> [k \in 0..(K - 1) |-> F(k + 1)], dx2 |-> [k \in 0..(K - 1) |-> F(-(k + 2))]],
     [dx |-> [k \in 0..(K - 1) |-> F(-3)], dx2 |-> [k \in 0..(K - 1) |-> F(k)]]}

GammaChoices == {F(2), NaN}

\* coordinates of an N-dimensional model, with every placement of the
\* coordinate and of its incoming variables
InitState ==
    \E K \in 1..MaxKx :
    \E N \in 1..MaxDim :
    \E type \in Partitions(K) :
    \E H \in Arrays(K, {F(0), F(1), F(2)}) :
    \E D \in DerivativeProfiles(K) :
    \E selfIdx \in 0..(N - 1) :
    \E idx \in Arrays(K, 0..(N - 1)) :
    \E g \in GammaChoices :
        /\ Construct(allFixed(K), K, type, selfIdx, idx, g)
        /\ dimension = N
        /\ parameter = IF isnan(g) THEN [i \in 0..0 |-> F(3)] ELSE <<>>
        /\ compVal = H
        /\ compDx = D.dx
        /\ compDx2 = D.dx2
        /\ component = NoComponent
        /\ hillModel = NoModel
        /\ ret = NotCalled

NextState == Dx \/ Dx2 \/ Discard

SpecState == InitState /\ [][NextState]_vars

\* coordinates that read variable k through component k, with every
\* interaction type and combination of component values
InitHessian ==
    \E K \in 1..MaxKh :
    \E type \in Partitions(K) :
    \E H \in Arrays(K, {F(0), F(1), F(2)}) :
    \E D \in DerivativeProfiles(K) :
        /\ Construct(allFixed(K), K, type, 0, [k \in 0..(K - 1) |-> k], F(2))
        /\ dimension = K
        /\ parameter = <<>>
        /\ compVal = H
        /\ compDx = D.dx
        /\ compDx2 = D.dx2
        /\ component = NoComponent
        /\ hillModel = NoModel
        /\ ret = NotCalled

NextHessian == Dx2 \/ Discard

SpecHessian == InitHessian /\ [][NextHessian]_vars

(***************************************************************************)
(* diff and parse_parameters                                               *)
(***************************************************************************)
\* np.searchsorted(a, diffIndex + 0.5) for a sorted integer array a: the
\* number of entries below diffIndex + 0.5
searchsorted_half(a, diffIndex) ==
    Cardinality({i \in DOMAIN a : 2 * a[i] < 2 * diffIndex + 1})

\* np.searchsorted(a, diffIndex): the number of entries below diffIndex
searchsorted_plain(a, diffIndex) ==
    Cardinality({i \in DOMAIN a : a[i] < diffIndex})

\* the component that owns the differentiation variable, looked up without
\* the added 0.5
locate_component_plain(diffIndex) ==
    searchsorted_plain(variableIndexByComponent, diffIndex) - 1

\* diffComponent: the component that owns the differentiation variable
locate_component(diffIndex) ==
    searchsorted_half(variableIndexByComponent, diffIndex) - 1

\* HillComponent.variableParameters of component j: the columns of its row
\* that are NaN, in the order of PARAMETER_NAMES
RECURSIVE NaNColumns(_, _)
NaNColumns(row, n) ==
    IF n = 0 THEN <<>>
    ELSE IF isnan(row[n - 1]) THEN Append(NaNColumns(row, n - 1), n - 1)
    ELSE NaNColumns(row, n - 1)

variableParameters(j) == NaNColumns(parameterValues[j], 4)

\* a[i] with Python's negative indices counted from the end
At(a, i) == IF i < 0 THEN a[len(a) + i] ELSE a[i]

\* diff with diffIndex given; dpH is what the component's diff returns
diff(diffIndex, dpH) ==
    IF gammaIsVariable /\ diffIndex = 0
    THEN Returned("int", F(-1))
    ELSE
    LET diffComponent == locate_component(diffIndex)
        diffParameterIndex ==
            diffIndex - At(variableIndexByComponent, diffComponent)
        found == [diffComponent |-> diffComponent,
                  diffParameterIndex |-> diffParameterIndex]
        wrapped == IF diffComponent < 0 THEN nComponent + diffComponent
                   ELSE diffComponent
    IN  IF ~xLocalInBounds THEN Raised("IndexError")
        ELSE IF nSummand > 1 /\ diffComponent \notin 0..(nComponent - 1)
        THEN [Raised("StopIteration") EXCEPT !.local = found]
        ELSE IF wrapped \notin 0..(nComponent - 1)
        THEN [Raised("IndexError") EXCEPT !.local = found]
        ELSE IF diffParameterIndex \notin
                    (-Len(variableParameters(wrapped)))
                        ..(Len(variableParameters(wrapped)) - 1)
        THEN [Raised("IndexError") EXCEPT !.local = found]
        ELSE LET diffInteraction == diff_interaction_partial(diffComponent).value
             IN  [Returned("float", FMul(diffInteraction, dpH))
                  EXCEPT !.local = found]

parse_parameters ==
    Returned("tuple", [gamma |-> parse_gamma,
                       parameterByComponent |-> parameterByComponent])

Diff ==
    /\ Idle
    /\ \E diffIndex \in 0..(nVariableParameter - 1) :
       \E dpH \in {F(1), F(3)} :
            ret' = Call("diff", 1, diffIndex, diff(diffIndex, dpH))
    /\ UNCHANGED <<self, callInputs, otherObjects>>

\* self.components
components == set_components(parameterValues, nComponent)

\* eq_interval(parameter) with a parameter vector: the interaction function
\* at the lower and at the upper ends of the components' images, over gamma
eq_interval ==
    LET parsed == parse_parameters.value
        rectangle == [k \in 0..(nComponent - 1) |->
                         image(components[k], accessor, parsed.parameterByComponent[k])]
        column(c) == [k \in 0..(nComponent - 1) |-> rectangle[k].value[c]]
    IN  IF \E k \in 0..(nComponent - 1) : rectangle[k].kind = "IndexError"
        THEN Raised("IndexError")
        ELSE Returned("list",
                      [i \in 0..1 |->
                          FDiv(interaction_function(column(i)), parsed.gamma)])

EqInterval ==
    /\ Idle
    /\ ret' = Call("eq_interval", 0, NoIndex, eq_interval)
    /\ UNCHANGED <<self, callInputs, otherObjects>>

ParseParameters ==
    /\ Idle
    /\ ret' = Call("parse_parameters", 0, NoIndex, parse_parameters)
    /\ UNCHANGED <<self, callInputs, otherObjects>>

\* rows [ell, delta, theta, hillCoefficient] with none, some or all of the
\* parameters variable
Row(variable) == [i \in 0..3 |-> IF i \in variable THEN NaN ELSE F(1)]

RowPatterns ==
    {Row({}), Row({0}), Row({1}), Row({3}), Row({2, 3}), Row({0, 1, 2, 3})}

\* coordinates with every combination of fixed and variable parameters, all
\* components in one summand or each in its own, and a parameter vector of
\* nVariableParameter different entries
InitParameter ==
    \E K \in 1..MaxKp :
    \E pv \in Arrays(K, RowPatterns) :
    \E type \in {[m \in 0..0 |-> K], [m \in 0..(K - 1) |-> 1]} :
    \E g \in GammaChoices :
        /\ Construct(pv, K, type, 0, [k \in 0..(K - 1) |-> k], g)
        /\ dimension = K
        /\ parameter = [i \in 0..(total_variable(isnan(g), count_variable(pv, K)) - 1)
                           |-> F(10 + i)]
        /\ compVal = [k \in 0..(K - 1) |-> F(k + 2)]
        /\ compDx = [k \in 0..(K - 1) |-> F(1)]
        /\ compDx2 = [k \in 0..(K - 1) |-> F(1)]
        /\ component = NoComponent
        /\ hillModel = NoModel
        /\ ret = NotCalled

NextParameter == Diff \/ ParseParameters \/ EqInterval \/ Discard

SpecParameter == InitParameter /\ [][NextParameter]_vars

(***************************************************************************)
(* HillCoordinate.dxdiff                                                   *)
(*                                                                         *)
(* An argument of a call on a component is a record [type, value]: the     *)
(* component's methods read their arguments by position.                   *)
(***************************************************************************)
int(n) == [type |-> "int", value |-> n]

float(v) == [type |-> "float", value |-> v]

ndarray(a) == [type |-> "ndarray", value |-> a]

\* HillComponent.diff(x, parameter, diffIndex) up to its first statement,
\* self.variableParameters[diffIndex]: a list is indexed by an integer, an
\* array of floats is a TypeError, an integer outside the list an IndexError.
\* dpH is what the formulas return
component_diff(j, x, parm, diffIndex, dpH) ==
    IF diffIndex.type # "int" THEN Raised("TypeError")
    ELSE IF diffIndex.value \notin (-Len(variableParameters(j)))
                                       ..(Len(variableParameters(j)) - 1)
    THEN Raised("IndexError")
    ELSE Returned("float", dpH)

\* HillCoordinate.dxdiff with diffIndex given
dxdiff(diffIndex, dpH) ==
    IF ~xLocalInBounds THEN Raised("IndexError")
    ELSE
    LET xLocal == [k \in DOMAIN interactionIndex |-> F(interactionIndex[k] + 1)]
        diffComponent == locate_component(diffIndex)
        diffParameterIndex ==
            diffIndex - At(variableIndexByComponent, diffComponent)
        wrapped == IF diffComponent < 0 THEN nComponent + diffComponent
                   ELSE diffComponent
        passed == [x |-> int(diffParameterIndex),
                   parameter |-> float(xLocal[wrapped]),
                   diffIndex |-> ndarray(parameterByComponent[wrapped])]
        found == [diffComponent |-> diffComponent,
                  diffParameterIndex |-> diffParameterIndex,
                  passed |-> passed]
    IN  IF diffComponent \notin 0..(nComponent - 1)
        THEN [Raised("StopIteration") EXCEPT !.local = found]
        ELSE
        LET I_k == summand_index(diffComponent)
            Dxfp == dx
        IN  IF Dxfp.kind # "ndarray" THEN [Raised(Dxfp.kind) EXCEPT !.local = found]
            ELSE IF \E i \in DOMAIN summand[I_k] : summand[I_k][i] >= len(Dxfp.value)
            THEN [Raised("IndexError") EXCEPT !.local = found]
            ELSE LET DpH == component_diff(diffComponent, passed.x, passed.parameter,
                                           passed.diffIndex, dpH)
                 IN  [Raised(DpH.kind) EXCEPT !.local = found]

Dxdiff ==
    /\ Idle
    /\ \E diffIndex \in 0..(nVariableParameter - 1) :
       \E dpH \in {F(1), F(3)} :
            ret' = Call("dxdiff", 2, diffIndex, dxdiff(diffIndex, dpH))
    /\ UNCHANGED <<self, callInputs, otherObjects>>

\* coordinates of a model of N state variables: every interaction type,
\* every choice of the variables read and of the variable parameters
InitDxdiff ==
    \E K \in 1..MaxKx :
    \E N \in 1..MaxDim :
    \E pv \in Arrays(K, RowPatterns) :
    \E type \in Partitions(K) :
    \E selfIdx \in 0..(N - 1) :
    \E idx \in Arrays(K, 0..(N - 1)) :
    \E g \in GammaChoices :
        /\ Construct(pv, K, type, selfIdx, idx, g)
        /\ dimension = N
        /\ parameter = [i \in 0..(total_variable(isnan(g), count_variable(pv, K)) - 1)
                           |-> F(10 + i)]
        /\ compVal = [k \in 0..(K - 1) |-> F(k + 2)]
        /\ compDx = [k \in 0..(K - 1) |-> F(1)]
        /\ compDx2 = [k \in 0..(K - 1) |-> F(1)]
        /\ component = NoComponent
        /\ hillModel = NoModel
        /\ ret = NotCalled

NextDxdiff == Dxdiff \/ Diff \/ Discard

SpecDxdiff == InitDxdiff /\ [][NextDxdiff]_vars

(***************************************************************************)
(* HillModel                                                               *)
(***************************************************************************)
\* no HillCoordinate instance of its own: the coordinates of a HillModel are
\* held in hillModel.coordinates
NoCoordinate ==
    /\ interactionType = <<>>
    /\ summand = <<>>
    /\ nComponent = 0
    /\ index = 0
    /\ interactionIndex = <<>>
    /\ gamma = NaN
    /\ gammaIsVariable = FALSE
    /\ parameterValues = <<>>
    /\ nVarByComponent = <<>>
    /\ variableIndexByComponent = <<>>
    /\ nVariableParameter = 0

\* np.concatenate of the first n arrays of a list
RECURSIVE concatenate(_, _)
concatenate(pieces, n) ==
    IF n = 0 THEN <<>>
    ELSE LET front == concatenate(pieces, n - 1)
             back == pieces[n - 1]
         IN  [i \in 0..(len(front) + len(back) - 1) |->
                 IF i < len(front) THEN front[i] ELSE back[i - len(front)]]

\* np.insert(np.cumsum(self.nVarByCoordinate), 0, 0)
insert_cumsum(nVar) ==
    [i \in 0..len(nVar) |-> IF i = 0 THEN 0 ELSE cumsum(nVar)[i - 1]]

\* HillModel.__init__: coordinate j is built from parameter[j] and gamma[j]
HillModel(gammas, parameters) ==
    LET N == len(gammas)
        coordinates ==
            [j \in 0..(N - 1) |->
                [gamma |-> gammas[j],
                 parameterValues |-> parameters[j],
                 components |-> set_components(parameters[j], len(parameters[j])),
                 nVariableParameter |->
                     total_variable(isnan(gammas[j]),
                                    count_variable(parameters[j], len(parameters[j])))]]
        nVarByCoordinate == [j \in 0..(N - 1) |-> coordinates[j].nVariableParameter]
    IN  [constructed |-> TRUE,
         dimension |-> N,
         coordinates |-> coordinates,
         nVarByCoordinate |-> nVarByCoordinate,
         variableIndexByCoordinate |-> insert_cumsum(nVarByCoordinate),
         nVariableParameter |-> IntSumTo(nVarByCoordinate, N)]

\* parse_parameter(*parameter)
parse_parameter(pieces) ==
    IF len(pieces) > 0 THEN concatenate(pieces, len(pieces)) ELSE <<>>

\* the unpacking that hands coordinate j everything before its end point
unpack_from_zero(vector) ==
    [j \in 0..(hillModel.dimension - 1) |->
        Slice(vector, 0, hillModel.variableIndexByCoordinate[j + 1])]

\* unpack_variable_parameters
unpack_variable_parameters(vector) ==
    [j \in 0..(hillModel.dimension - 1) |->
        Slice(vector, hillModel.variableIndexByCoordinate[j],
                      hillModel.variableIndexByCoordinate[j + 1])]

\* the state x of the calls on the model
stateVector == [g \in 0..(dimension - 1) |-> F(g + 1)]

\* f_i(x, parm) and f_i.dx(x, parm): the call made on coordinate i, a
\* function of the arguments it is handed
coordinate_call(i, x, parm) == [coordinate |-> i, x |-> x, parameter |-> parm]

\* HillModel.__call__ and HillModel.dx: one call per coordinate
model_map(x, pieces) ==
    LET vector == parse_parameter(pieces)
        parameterByCoordinate == unpack_variable_parameters(vector)
    IN  [Returned("ndarray",
                  [i \in 0..(hillModel.dimension - 1) |->
                      coordinate_call(i, x, parameterByCoordinate[i])])
         EXCEPT !.local = [parameter |-> vector]]

\* the ways the caller passes the vector: whole, or as two arrays
Pieces ==
    {[i \in 0..0 |-> parameter]}
        \cup {[i \in 0..1 |-> IF i = 0 THEN Slice(parameter, 0, cut)
                               ELSE Slice(parameter, cut, len(parameter))] :
                 cut \in 0..len(parameter)}

ModelCall ==
    /\ Idle
    /\ hillModel.constructed
    /\ \E pieces \in Pieces :
          ret' = Call("HillModel.__call__", 0, NoIndex, model_map(stateVector, pieces))
    /\ UNCHANGED <<self, callInputs, otherObjects>>

ModelDx ==
    /\ Idle
    /\ hillModel.constructed
    /\ \E pieces \in Pieces :
          ret' = Call("HillModel.dx", 0, NoIndex, model_map(stateVector, pieces))
    /\ UNCHANGED <<self, callInputs, otherObjects>>

\* the parameter arrays of a coordinate: one component with nothing or the
\* Hill coefficient variable, or two components with six variable parameters
CoordinateParameters ==
    {[k \in 0..0 |-> Row({})],
     [k \in 0..0 |-> Row({3})],
     [k \in 0..1 |-> IF k = 0 THEN Row({0, 1, 2, 3}) ELSE Row({2, 3})]}

\* the components of the first n coordinates, in the order constructed
RECURSIVE components_of(_, _)
components_of(coordinates, n) ==
    IF n = 0 THEN <<>>
    ELSE LET front == components_of(coordinates, n - 1)
             back == coordinates[n - 1].components
         IN  [i \in 0..(len(front) + len(back) - 1) |->
                 IF i < len(front) THEN front[i] ELSE back[i - len(front)]]

InitModel ==
    \E N \in 1..MaxN :
    \E gammas \in Arrays(N, GammaChoices) :
    \E parameters \in Arrays(N, CoordinateParameters) :
        /\ NoCoordinate
        /\ hillModel = HillModel(gammas, parameters)
        /\ accessor =
              LET all == components_of(HillModel(gammas, parameters).coordinates, N)
              IN  accessors_after(all, len(all))
        /\ component = NoComponent
        /\ dimension = N
        /\ parameter = [i \in 0..(HillModel(gammas, parameters).nVariableParameter - 1)
                           |-> F(10 + i)]
        /\ compVal = <<>>
        /\ compDx = <<>>
        /\ compDx2 = <<>>
        /\ ret = NotCalled

NextModel == ModelCall \/ ModelDx \/ Discard

SpecModel == InitModel /\ [][NextModel]_vars

(***************************************************************************)
(* Calls on a HillComponent                                                *)
(***************************************************************************)
\* the value a keyword argument gives to a name; "bogus" is a name that is
\* not in PARAMETER_NAMES
KwargValue(name) ==
    IF name = "ell" THEN F(1)
    ELSE IF name = "delta" THEN F(2)
    ELSE IF name = "theta" THEN F(3)
    ELSE IF name = "hillCoefficient" THEN F(4)
    ELSE F(5)

\* keyword arguments: up to four different names in any order
Kwargs ==
    LET ordered == UNION {[0..(n - 1) -> Names \cup {"bogus"}] : n \in 0..4}
    IN  {[i \in DOMAIN names |-> [name |-> names[i], value |-> KwargValue(names[i])]] :
            names \in {o \in ordered : \A i, j \in DOMAIN o : o[i] = o[j] => i = j}}

\* parameter vectors of every length up to four
Vectors == {[i \in 0..(n - 1) |-> F(10 + i)] : n \in 0..4}

\* HillComponent(sign, **kwargs).  The first instance constructed is kept
\* as c; the class attributes are shared by every instance
NewHillComponent ==
    /\ Idle
    /\ \E kwargs \in Kwargs :
          LET instance == HillComponent(kwargs)
          IN  /\ component' = IF ~component.constructed /\ instance.constructed
                              THEN instance ELSE component
              /\ accessor' = add_parameter_calls(accessor, instance)
              /\ ret' = Call("HillComponent", 0, NoIndex,
                             [kind |-> IF instance.raised THEN "KeyError"
                                       ELSE "HillComponent",
                              value |-> IF instance.raised THEN NoComponent
                                        ELSE instance,
                              local |-> [kwargs |-> kwargs]])
    /\ UNCHANGED <<self, callInputs, hillModel>>

CurryParameters ==
    /\ Idle
    /\ component.constructed
    /\ \E p \in Vectors :
          /\ ret' = Call("curry_parameters", 0, NoIndex,
                         [curry_parameters(component, p) EXCEPT !.local = [parameter |-> p]])
          /\ component' = [component EXCEPT
                              !.parameterValues = parameterValues_after_curry(component, p)]
    /\ UNCHANGED <<self, callInputs, accessor, hillModel>>

Image ==
    /\ Idle
    /\ component.constructed
    /\ \E p \in Vectors :
          ret' = Call("image", 0, NoIndex,
                      [image(component, accessor, p) EXCEPT !.local = [parameter |-> p]])
    /\ UNCHANGED <<self, callInputs, otherObjects>>

InitComponent ==
    /\ NoCoordinate
    /\ component = NoComponent
    /\ accessor = NoAccessors
    /\ hillModel = NoModel
    /\ dimension = 0
    /\ parameter = <<>>
    /\ compVal = <<>>
    /\ compDx = <<>>
    /\ compDx2 = <<>>
    /\ ret = NotCalled

NextComponent == NewHillComponent \/ CurryParameters \/ Image \/ Discard

SpecComponent == InitComponent /\ [][NextComponent]_vars

(***************************************************************************)
(* HillComponent.diff2 and HillComponent.dxdiff2                           *)
(***************************************************************************)
\* the value of one of the closed formulas of a method: a function of the
\* branch taken, of x and of the four curried parameters
formula(method, branch, x, parameters) ==
    [kind |-> "float",
     value |-> [method |-> method, branch |-> branch, x |-> x, parameters |-> parameters],
     local |-> <<>>]

\* return 0.
zero(method) == formula(method, <<"0">>, F(0), <<>>)

\* diffIndex = diffIndex[[1, 0]] when diffIndex[0] > diffIndex[1]: a numpy
\* array is reordered, a tuple or a list cannot be indexed by a list
ordered_diffIndex(container, diffIndex) ==
    IF diffIndex[0] > diffIndex[1]
    THEN IF container = "ndarray"
         THEN [raised |-> FALSE, diffIndex |-> [i \in 0..1 |-> diffIndex[1 - i]]]
         ELSE [raised |-> TRUE, diffIndex |-> diffIndex]
    ELSE [raised |-> FALSE, diffIndex |-> diffIndex]

\* diff2 and dxdiff2 have the same dispatch: the pair is put in increasing
\* order, ell first returns 0., (delta, delta) returns 0., every other pair
\* has its formula.  The formula of (theta, hillCoefficient) calls a float
\* in diff2 and applies ^ to a float in dxdiff2, a TypeError in both
mixed_partial(method, c, container, diffIndex, x, p) ==
    LET o == ordered_diffIndex(container, diffIndex)
        diffParameter0 == c.variableParameters[o.diffIndex[0]]
        diffParameter1 == c.variableParameters[o.diffIndex[1]]
        curried == curry_parameters(c, p)
    IN  IF o.raised THEN Raised("TypeError")
        ELSE IF diffParameter0 = "ell" THEN zero(method)
        ELSE IF curried.kind # "ndarray" THEN Raised(curried.kind)
        ELSE IF diffParameter0 = "delta" /\ diffParameter1 = "delta" THEN zero(method)
        ELSE IF diffParameter0 = "theta" /\ diffParameter1 = "hillCoefficient"
             THEN Raised("TypeError")
        ELSE formula(method, <<diffParameter0, diffParameter1>>, x, curried.value)

diff2(c, container, diffIndex, x, p) == mixed_partial("diff2", c, container, diffIndex, x, p)

dxdiff2(c, container, diffIndex, x, p) == mixed_partial("dxdiff2", c, container, diffIndex, x, p)

\* the pairs of local indices of variable parameters of the component
IndexPairs == Arrays(2, DOMAIN component.variableParameters)

Diff2 ==
    /\ Idle
    /\ component.constructed
    /\ \E container \in {"ndarray", "tuple"} :
       \E diffIndex \in IndexPairs :
       \E x \in {F(1), F(2)} :
       \E p \in Vectors :
          ret' = Call("diff2", 2, NoIndex,
                      [diff2(component, container, diffIndex, x, p)
                          EXCEPT !.local = [container |-> container, diffIndex |-> diffIndex,
                                            x |-> x, parameter |-> p]])
    /\ UNCHANGED <<self, callInputs, otherObjects>>

Dxdiff2 ==
    /\ Idle
    /\ component.constructed
    /\ \E container \in {"ndarray", "tuple"} :
       \E diffIndex \in IndexPairs :
       \E x \in {F(1), F(2)} :
       \E p \in Vectors :
          ret' = Call("dxdiff2", 3, NoIndex,
                      [dxdiff2(component, container, diffIndex, x, p)
                          EXCEPT !.local = [container |-> container, diffIndex |-> diffIndex,
                                            x |-> x, parameter |-> p]])
    /\ UNCHANGED <<self, callInputs, otherObjects>>

NextMixed == NewHillComponent \/ Diff2 \/ Dxdiff2 \/ Discard

SpecMixed == InitComponent /\ [][NextMixed]_vars

(***************************************************************************)
(* Evaluation calls on constructed components, coordinates and models      *)
(***************************************************************************)
\* a constructed HillComponent with no coordinate and no model
InitConstructed ==
    \E kwargs \in Kwargs :
        /\ HillComponent(kwargs).constructed
        /\ NoCoordinate
        /\ component = HillComponent(kwargs)
        /\ accessor = add_parameter_calls(NoAccessors, HillComponent(kwargs))
        /\ hillModel = NoModel
        /\ dimension = 0
        /\ parameter = <<>>
        /\ compVal = <<>>
        /\ compDx = <<>>
        /\ compDx2 = <<>>
        /\ ret = NotCalled

InitEvaluate == InitConstructed \/ InitParameter \/ InitModel

\* the evaluation calls on a HillCoordinate
ValueOfCoordinate == nComponent > 0 /\ InteractionFunction

DxOfCoordinate == nComponent > 0 /\ Dx

Dx2OfCoordinate == nComponent > 0 /\ Dx2

DiffOfCoordinate == nComponent > 0 /\ Diff

EqIntervalOfCoordinate == nComponent > 0 /\ EqInterval

NextEvaluate ==
    \/ CurryParameters
    \/ Image
    \/ ValueOfCoordinate
    \/ DxOfCoordinate
    \/ Dx2OfCoordinate
    \/ DiffOfCoordinate
    \/ EqIntervalOfCoordinate
    \/ ModelCall
    \/ ModelDx
    \/ Discard

SpecEvaluate == InitEvaluate /\ [][NextEvaluate]_vars

(***************************************************************************)
(* HillCoordinate.__init__ on arguments that need not fit together         *)
(***************************************************************************)
\* the exception __init__ raises, or "None": set_components reads row k of
\* the parameter array for every k < K, and interactionIndex[0] is read
init_outcome(pv, K, type, fullIndex) ==
    IF K > 1 /\ len(pv) < K THEN "IndexError"
    ELSE IF len(fullIndex) = 0 THEN "IndexError"
    ELSE "None"

\* the arguments of the constructor call, kept with its outcome
init_arguments(pv, K, type, fullIndex) ==
    [parameter |-> pv, interactionSign |-> [k \in 0..(K - 1) |-> 1],
     interactionType |-> type, interactionIndex |-> fullIndex]

\* constructor calls with one row of parameters per interaction sign or
\* one row more or fewer, any short list of positive integers as
\* interaction type, and an index list of any length up to K + 2
InitConstruct ==
    \E K \in 1..MaxKc :
    \E rows \in IF K = 1 THEN {1} ELSE (K - 1)..(K + 1) :
    \E type \in UNION {[0..(q - 1) -> 1..(K + 1)] : q \in 1..2} :
    \E nIndex \in 0..(K + 2) :
    \E H \in Arrays(K, Values) :
        LET fullIndex == [i \in 0..(nIndex - 1) |-> 0]
            outcome == init_outcome(allFixed(rows), K, type, fullIndex)
        IN  /\ IF outcome = "None"
               THEN Construct(allFixed(rows), K, type, fullIndex[0],
                              Slice(fullIndex, 1, nIndex), F(1))
               ELSE NoCoordinate /\ accessor = NoAccessors
            /\ dimension = 1
            /\ parameter = <<>>
            /\ compVal = H
            /\ compDx = [k \in 0..(K - 1) |-> F(0)]
            /\ compDx2 = [k \in 0..(K - 1) |-> F(0)]
            /\ component = NoComponent
            /\ hillModel = NoModel
            /\ ret = Call("HillCoordinate", 0, NoIndex,
                          [kind |-> outcome, value |-> <<>>,
                           local |-> init_arguments(allFixed(rows), K, type, fullIndex)])

\* interaction_function on a coordinate that was constructed
InteractionFunctionOfConstructed ==
    /\ nComponent > 0
    /\ InteractionFunction

NextConstruct == InteractionFunctionOfConstructed \/ Discard

SpecConstruct == InitConstruct /\ [][NextConstruct]_vars

(***************************************************************************)
(* HillModel.find_equilibria                                               *)
(*                                                                         *)
(* The root finder is external: what it returns for a grid point is an     *)
(* input, a record [success, x].  The second solve, from a rounded root,   *)
(* returns only the vector.                                                *)
(***************************************************************************)
\* a < b on finite floats
FLess(a, b) == a[1] * b[2] < b[1] * a[2]

\* eq_is_positive: np.all(equilibrium > 0)
eq_is_positive(x) == \A i \in DOMAIN x : FLess(F(0), x[i])

RECURSIVE IntPow(_, _)
IntPow(b, e) == IF e = 0 THEN 1 ELSE b * IntPow(b, e - 1)

\* np.round(x, digits): to the nearest multiple of 10^-digits, halves to even
round(x, digits) ==
    LET scaled == x[1] * IntPow(10, digits)
        q == scaled \div x[2]
        r == scaled - q * x[2]
        nearest == IF 2 * r < x[2] THEN q
                   ELSE IF 2 * r > x[2] THEN q + 1
                   ELSE IF q % 2 = 0 THEN q ELSE q + 1
    IN  FDiv(F(nearest), F(IntPow(10, digits)))

\* the order of np.unique on columns: by the first coordinate that differs
LexLess(u, v) ==
    \E i \in DOMAIN u :
        /\ FLess(u[i], v[i])
        /\ \A j \in DOMAIN u : j < i => u[j] = v[j]

RECURSIVE sorted_columns(_)
sorted_columns(S) ==
    IF S = {} THEN <<>>
    ELSE LET top == CHOOSE u \in S : \A v \in S : v = u \/ LexLess(v, u)
             front == sorted_columns(S \ {top})
         IN  [i \in 0..len(front) |-> IF i < len(front) THEN front[i] ELSE top]

\* the different columns in the order in which they first occur
RECURSIVE first_occurrences(_, _)
first_occurrences(columns, n) ==
    IF n = 0 THEN <<>>
    ELSE LET front == first_occurrences(columns, n - 1)
         IN  IF columns[n - 1] \in Members(front) THEN front
             ELSE [i \in 0..len(front) |->
                     IF i < len(front) THEN front[i] ELSE columns[n - 1]]

unique_in_order(columns) == first_occurrences(columns, len(columns))

\* np.unique(columns, axis=1): the different columns, sorted
np_unique(columns) == sorted_columns(Members(columns))

\* optimize.root of the second solve: the solver returns the guess and
\* reports success, returns the opposite of the guess and reports success,
\* or returns the guess and reports failure
optimize_root(polish, guess) ==
    [success |-> polish # "fails",
     x |-> IF polish = "opposite" THEN [i \in DOMAIN guess |-> FNeg(guess[i])]
           ELSE guess]

\* find_root(F, DF, guess) with diagnose=False: only the solution vector
find_root(polish, guess) == optimize_root(polish, guess).x

\* find_equilibria; results[j] is what the solver returns for grid point j.
\* np.column_stack of an empty list raises ValueError
find_equilibria(results, polish, uniqueRootDigits) ==
    LET kept == Ascending({j \in DOMAIN results :
                              results[j].success /\ eq_is_positive(results[j].x)})
        solns == [i \in DOMAIN kept |-> results[kept[i]]]
        equilibria == [i \in DOMAIN solns |-> solns[i].x]
        rounded == [i \in DOMAIN equilibria |->
                       [c \in DOMAIN equilibria[i] |->
                           round(equilibria[i][c], uniqueRootDigits)]]
        unique == np_unique(rounded)
    IN  IF len(solns) = 0 THEN Raised("ValueError")
        ELSE Returned("ndarray",
                      [j \in DOMAIN unique |-> find_root(polish, unique[j])])

RootValues == {F(-1), F(1), FDiv(F(5), F(4))}

\* vectors the solver returns: one coordinate takes any of the root values
RootVectors(N) ==
    {[i \in 0..(N - 1) |-> IF i = c THEN r ELSE F(1)] :
        c \in 0..(N - 1), r \in RootValues}

\* what the solver returns for a grid point: success with any of the
\* vectors, or failure with a positive vector
SolverResults(N) ==
    {[success |-> TRUE, x |-> v] : v \in RootVectors(N)}
        \cup {[success |-> FALSE, x |-> [i \in 0..(N - 1) |-> F(1)]]}

FindEquilibria ==
    /\ Idle
    /\ hillModel.constructed
    /\ \E gridDensity \in 1..MaxPoints :
       \E polish \in {"same", "opposite", "fails"} :
       \E uniqueRootDigits \in 0..1 :
          /\ IntPow(gridDensity, hillModel.dimension) <= MaxPoints
          /\ \E results \in Arrays(IntPow(gridDensity, hillModel.dimension),
                                    SolverResults(hillModel.dimension)) :
                ret' = Call("find_equilibria", 0, NoIndex,
                            [find_equilibria(results, polish, uniqueRootDigits)
                                EXCEPT !.local = [results |-> results,
                                                  polish |-> polish,
                                                  uniqueRootDigits |-> uniqueRootDigits]])
    /\ UNCHANGED <<self, callInputs, otherObjects>>

\* models of one and of two coordinates, every parameter fixed
InitEquilibria ==
    \E N \in 1..2 :
        /\ NoCoordinate
        /\ hillModel = HillModel([j \in 0..(N - 1) |-> F(1)],
                                 [j \in 0..(N - 1) |-> allFixed(1)])
        /\ accessor = NoAccessors
        /\ component = NoComponent
        /\ dimension = N
        /\ parameter = <<>>
        /\ compVal = <<>>
        /\ compDx = <<>>
        /\ compDx2 = <<>>
        /\ ret = NotCalled

NextEquilibria == FindEquilibria \/ Discard

SpecEquilibria == InitEquilibria /\ [][NextEquilibria]_vars

(***************************************************************************)
(* ToggleSwitch: the class of src/models.py and the class of the same name *)
(* at the end of src/hill_model.py                                         *)
(***************************************************************************)
\* np.insert(a, indices, v) for ascending indices into a: v is put in
\* front of the entries a[indices[j]]
np_insert(a, indices, v) ==
    LET inserted == {indices[j] + j : j \in DOMAIN indices}
    IN  [pos \in 0..(len(a) + len(indices) - 1) |->
            IF pos \in inserted THEN v
            ELSE a[pos - Cardinality({q \in inserted : q < pos})]]

\* ezcat(rho, p)
ezcat(rho, p) == [i \in 0..len(p) |-> IF i = 0 THEN rho ELSE p[i - 1]]

\* np.insert(parmList, 3, np.nan): NaN in front of entry 3, at the end of a
\* vector (ell, delta, theta)
insert_nan(parmList) ==
    [i \in 0..len(parmList) |->
        IF i = 3 THEN NaN ELSE parmList[IF i < 3 THEN i ELSE i - 1]]

\* parameter = [np.insert(parmList, 3, np.nan) for parmList in parameter],
\* each the one row of its coordinate
toggle_parameter(parameters3) ==
    [j \in 0..1 |-> [k \in 0..0 |-> insert_nan(parameters3[j])]]

\* ToggleSwitch.__init__: the attributes beside those of the HillModel.
\* The class of hill_model.py calls the insertion indices
\* hillIndexByCoordinate, sets nothing else and keeps nVariableParameter
ToggleSwitch(class, gammas, parameters3) ==
    LET base == HillModel(gammas, toggle_parameter(parameters3))
        ends == [j \in 0..(base.dimension - 1) |-> base.variableIndexByCoordinate[j + 1]]
        hillIndex == [j \in DOMAIN ends |-> ends[j] - 1]
    IN  IF class = "models"
        THEN [constructed |-> TRUE,
              dimension |-> base.dimension,
              coordinates |-> base.coordinates,
              nVarByCoordinate |-> base.nVarByCoordinate,
              variableIndexByCoordinate |-> base.variableIndexByCoordinate,
              nVariableParameter |-> base.nVariableParameter - 1,
              class |-> class,
              hillInsertionIndex |-> [j \in DOMAIN ends |-> ends[j] - (j + 1)],
              hillIndex |-> hillIndex,
              nonhillIndex |->
                  Ascending({idx \in 0..(base.nVariableParameter - 1) :
                                idx \notin Members(hillIndex)})]
        ELSE [constructed |-> TRUE,
              dimension |-> base.dimension,
              coordinates |-> base.coordinates,
              nVarByCoordinate |-> base.nVarByCoordinate,
              variableIndexByCoordinate |-> base.variableIndexByCoordinate,
              nVariableParameter |-> base.nVariableParameter,
              class |-> class,
              hillInsertionIndex |-> [j \in DOMAIN ends |-> ends[j] - (j + 1)]]

\* ToggleSwitch.parse_parameter(rho, p)
toggle_parse_parameter(rho, p) ==
    IF hillModel.class = "models"
    THEN LET parameterVector == ezcat(rho, p)
         IN  np_insert(Slice(parameterVector, 1, len(parameterVector)),
                       hillModel.hillInsertionIndex, parameterVector[0])
    ELSE np_insert(p, hillModel.hillInsertionIndex, rho)

\* ToggleSwitch.diff: super().diff is looked up in HillModel, which defines
\* no method diff; the class of hill_model.py has no diff either
toggle_diff == Raised("AttributeError")

IsToggleSwitch == hillModel.constructed /\ "class" \in DOMAIN hillModel

ToggleParseParameter ==
    /\ Idle
    /\ IsToggleSwitch
    /\ \E rho \in {F(7)} :
          ret' = Call("ToggleSwitch.parse_parameter", 0, NoIndex,
                      [Returned("ndarray", toggle_parse_parameter(rho, parameter))
                          EXCEPT !.local = [rho |-> rho, p |-> parameter]])
    /\ UNCHANGED <<self, callInputs, otherObjects>>

ToggleDiff ==
    /\ Idle
    /\ IsToggleSwitch
    /\ \E rho \in {F(7)} :
          ret' = Call("ToggleSwitch.diff", 0, NoIndex,
                      [toggle_diff EXCEPT !.local = [rho |-> rho, p |-> parameter]])
    /\ UNCHANGED <<self, callInputs, otherObjects>>

\* the vectors (ell, delta, theta) of a coordinate, NaN = variable
ToggleRows == {[i \in 0..2 |-> IF i \in S THEN NaN ELSE F(1)] : S \in SUBSET (0..2)}

\* toggle switches of both classes with every choice of fixed parameters,
\* and a vector p with one entry per variable parameter that is not a Hill
\* coefficient
InitToggle ==
    \E class \in {"models", "hill_model"} :
    \E gammas \in Arrays(2, GammaChoices) :
    \E parameters3 \in Arrays(2, ToggleRows) :
        /\ NoCoordinate
        /\ hillModel = ToggleSwitch(class, gammas, parameters3)
        /\ accessor =
              LET all == [j \in 0..1 |-> set_components(toggle_parameter(parameters3)[j], 1)[0]]
              IN  accessors_after(all, 2)
        /\ component = NoComponent
        /\ dimension = 2
        /\ parameter =
              [i \in 0..(ToggleSwitch(class, gammas, parameters3).variableIndexByCoordinate[2] - 3)
                  |-> F(10 + i)]
        /\ compVal = <<>>
        /\ compDx = <<>>
        /\ compDx2 = <<>>
        /\ ret = NotCalled

NextToggle == ToggleParseParameter \/ ToggleDiff \/ Discard

SpecToggle == InitToggle /\ [][NextToggle]_vars

(***************************************************************************)
(* Reference quantities of the interaction function                       *)
(*   p(H) = prod over summands m of (sum of H_k over the members of m)     *)
(***************************************************************************)
\* the summand sum p_m
SummandSum(m) == evaluate_summand[m]

\* the product of the summand sums of all summands outside the set S
RECURSIVE ProductUpTo(_, _)
ProductUpTo(S, n) ==
    IF n = 0 THEN F(1)
    ELSE FMul(ProductUpTo(S, n - 1),
              IF (n - 1) \in S THEN F(1) ELSE SummandSum(n - 1))

ProductExcluding(S) == ProductUpTo(S, nSummand)

\* the summand that contains component k
SummandOf(k) == CHOOSE m \in DOMAIN summand : k \in Members(summand[m])

SameSummand(j, k) == SummandOf(j) = SummandOf(k)

Components == 0..(nComponent - 1)

CalledDiffInteraction(diffOrder) ==
    /\ ret.op = "diff_interaction"
    /\ ret.diffOrder = diffOrder

(***************************************************************************)
(* C1: diff_interaction with diffOrder=1 and no diffIndex returns a        *)
(* length-K vector whose entry k is the product of the summand sums of all *)
(* summands other than the one containing component k (1 for every k when  *)
(* q = 1), also when summand sums are zero.                                *)
(***************************************************************************)
C1_GradientIsProductOfOthers ==
    (CalledDiffInteraction(1) /\ ret.diffIndex = NoIndex) =>
        /\ ret.kind = "ndarray"
        /\ DOMAIN ret.value = Components
        /\ \A k \in Components :
              ret.value[k] = IF nSummand = 1 THEN F(1)
                             ELSE ProductExcluding({SummandOf(k)})

(***************************************************************************)
(* C2: diff_interaction with diffOrder=1 and diffIndex=k returns entry k   *)
(* of the full order-1 gradient, the product of the summand sums of all    *)
(* summands other than the one containing k.                               *)
(***************************************************************************)
C2_PartialIsGradientEntry ==
    (CalledDiffInteraction(1) /\ ret.diffIndex # NoIndex) =>
        /\ ret.kind = "float"
        /\ ret.value = diff_interaction(1, NoIndex).value[ret.diffIndex]
        /\ ret.value = IF nSummand = 1 THEN F(1)
                       ELSE ProductExcluding({SummandOf(ret.diffIndex)})

(***************************************************************************)
(* C3: for any number of summands, diff_interaction with diffOrder=2       *)
(* returns a K-by-K tensor whose entry (j,k) is 0 when j and k lie in the  *)
(* same summand and the product of all summand sums excluding the two      *)
(* summands of j and k otherwise.                                          *)
(***************************************************************************)
C3_HessianIsProductExcludingTwo ==
    (CalledDiffInteraction(2) /\ ret.diffIndex = NoIndex) =>
        /\ ret.kind = "ndarray"
        /\ DOMAIN ret.value = TensorIndex(2)
        /\ \A j, k \in Components :
              ret.value[<<j, k>>] =
                  IF SameSummand(j, k) THEN F(0)
                  ELSE ProductExcluding({SummandOf(j), SummandOf(k)})

(***************************************************************************)
(* C4: with q <= 2 summands diff_interaction with diffOrder=2 returns the  *)
(* K-by-K zero tensor.                                                     *)
(***************************************************************************)
C4_HessianZeroUpToTwoSummands ==
    (CalledDiffInteraction(2) /\ ret.diffIndex = NoIndex /\ nSummand <= 2) =>
        /\ ret.kind = "ndarray"
        /\ ret.value = zeros(2)

\* C4 as amended: with q = 1 summand diff_interaction with diffOrder=2
\* returns the K-by-K zero tensor; with q = 2 summands it returns the K-by-K
\* tensor whose entry (j,k) is 0 when j and k lie in the same summand and 1
\* when they lie in different summands.
C4_HessianUpToTwoSummands ==
    (CalledDiffInteraction(2) /\ ret.diffIndex = NoIndex /\ nSummand <= 2) =>
        /\ ret.kind = "ndarray"
        /\ DOMAIN ret.value = TensorIndex(2)
        /\ \A j, k \in Components :
              ret.value[<<j, k>>] =
                  IF nSummand = 2 /\ ~SameSummand(j, k) THEN F(1) ELSE F(0)

\* a two-summand coordinate whose order-2 tensor has both a same-summand
\* entry off the diagonal and a cross-summand entry
C4_Witness ==
    /\ CalledDiffInteraction(2)
    /\ ret.diffIndex = NoIndex
    /\ nSummand = 2
    /\ ret.kind = "ndarray"
    /\ \E j, k \in Components : j # k /\ SameSummand(j, k)
    /\ \E j, k \in Components : ~SameSummand(j, k) /\ ret.value[<<j, k>>] = F(1)

(***************************************************************************)
(* C5: with q <= 3 summands diff_interaction with diffOrder=3 returns a    *)
(* K-by-K-by-K tensor whose entry (i,j,k) is 0 whenever two of i, j, k     *)
(* share a summand (so the tensor is zero when q <= 2) and 1 exactly when  *)
(* q = 3 and i, j, k lie in three distinct summands.                       *)
(***************************************************************************)
C5_ThirdOrderTensor ==
    (CalledDiffInteraction(3) /\ ret.diffIndex = NoIndex /\ nSummand <= 3) =>
        /\ ret.kind = "ndarray"
        /\ DOMAIN ret.value = TensorIndex(3)
        /\ \A i, j, k \in Components :
              LET distinct == /\ ~SameSummand(i, j)
                              /\ ~SameSummand(i, k)
                              /\ ~SameSummand(j, k)
              IN  /\ ~distinct => ret.value[<<i, j, k>>] = F(0)
                  /\ ret.value[<<i, j, k>>] = F(1) <=> (nSummand = 3 /\ distinct)

\* a three-summand coordinate with two different components in one summand:
\* the tensor has an entry 1 and an entry 0 at three different components
C5_Witness ==
    /\ CalledDiffInteraction(3)
    /\ ret.diffIndex = NoIndex
    /\ nSummand = 3
    /\ ret.kind = "ndarray"
    /\ \E i, j, k \in Components : ret.value[<<i, j, k>>] = F(1)
    /\ \E i, j, k \in Components :
          /\ i # j /\ i # k /\ j # k
          /\ SameSummand(i, j)
          /\ ret.value[<<i, j, k>>] = F(0)

(***************************************************************************)
(* Reference quantities of the chain rule                                  *)
(***************************************************************************)
\* dp/dH_k: the product of the summand sums of the summands other than k's
dpdH(k) == IF nSummand = 1 THEN F(1) ELSE ProductExcluding({SummandOf(k)})

\* (dp/dH_k) * (dH_k/dx)
ChainTerm(k) == FMul(dpdH(k), compDx[k])

DistinctInteractionIndices ==
    \A j, k \in Components : j # k => interactionIndex[j] # interactionIndex[k]

\* the component that reads global variable g, when exactly one does
ComponentAt(g) == CHOOSE k \in Components : interactionIndex[k] = g

(***************************************************************************)
(* C6: with pairwise distinct interaction indices dx returns a vector of   *)
(* the global state dimension that is zero outside {selfIndex} union       *)
(* interactionIndices, carries (dp/dH_k)*(dH_k/dx) at interactionIndex[k]  *)
(* and has -gamma added at selfIndex to the chain-rule term already there. *)
(***************************************************************************)
C6_GradientEmbedding ==
    (ret.op = "dx" /\ DistinctInteractionIndices) =>
        /\ ret.kind = "ndarray"
        /\ DOMAIN ret.value = 0..(dimension - 1)
        /\ \A g \in 0..(dimension - 1) :
              ret.value[g] =
                  FSub(IF g \in Targets THEN ChainTerm(ComponentAt(g)) ELSE F(0),
                       IF g = index THEN parse_gamma ELSE F(0))

\* the same statement where no summand sum is zero
C6_GradientEmbeddingNonzeroSummands ==
    (\A m \in DOMAIN summand : SummandSum(m) # F(0)) => C6_GradientEmbedding

(***************************************************************************)
(* C7: for every choice of interaction indices in 0..N-1 dx2 returns       *)
(* without error an N-by-N matrix that is zero outside                     *)
(* interactionIndex x interactionIndex and holds the local K-by-K Hessian  *)
(* at those positions.                                                     *)
(***************************************************************************)
C7_HessianEmbedding ==
    ret.op = "dx2" =>
        /\ ret.kind = "ndarray"
        /\ DOMAIN ret.value = [1..2 -> 0..(dimension - 1)]
        /\ \A g, h \in 0..(dimension - 1) :
              ~(g \in Targets /\ h \in Targets) => ret.value[<<g, h>>] = F(0)
        /\ \A j, k \in Components :
              DistinctInteractionIndices =>
                  ret.value[<<interactionIndex[j], interactionIndex[k]>>]
                      = ret.local.D2Nonlinear[<<j, k>>]

(***************************************************************************)
(* C8: in dx2, for every interaction type and every pair of distinct       *)
(* components j # k of the same summand, offDiagonal[j,k] is zero and so   *)
(* is the local Hessian entry (j,k); the diagonal of offDiagonal is zero.  *)
(***************************************************************************)
C8_SameSummandMixedPartialsVanish ==
    ret.op = "dx2" =>
        \A j, k \in Components :
            /\ (j # k /\ SameSummand(j, k)) =>
                  /\ nSummand > 1 => ret.local.offDiagonal[<<j, k>>] = F(0)
                  /\ ret.local.D2Nonlinear[<<j, k>>] = F(0)
            /\ (j = k /\ nSummand > 1) => ret.local.offDiagonal[<<j, k>>] = F(0)

\* a coordinate with several summands, one of them holding two components,
\* whose cross-summand factors are not zero
C8_Witness ==
    /\ ret.op = "dx2"
    /\ nSummand > 1
    /\ \E j, k \in Components : j # k /\ SameSummand(j, k)
    /\ \E j, k \in Components :
          /\ ~SameSummand(j, k)
          /\ ret.local.offDiagonal[<<j, k>>] # F(0)
          /\ ret.local.D2Nonlinear[<<j, k>>] # F(0)

(***************************************************************************)
(* Reference quantities of the parameter layout                            *)
(***************************************************************************)
\* the number of variable parameters of component j
VariableCount(j) == Cardinality({i \in 0..3 : isnan(parameterValues[j][i])})

RECURSIVE CountBefore(_)
CountBefore(j) == IF j = 0 THEN 0 ELSE CountBefore(j - 1) + VariableCount(j - 1)

GammaSlots == IF gammaIsVariable THEN 1 ELSE 0

\* where the slice of component j starts in the flat vector
SliceStart(j) == GammaSlots + CountBefore(j)

(***************************************************************************)
(* C9: for every diffIndex in 0..nVariableParameter-1 diff returns -1 when *)
(* gamma is variable and diffIndex = 0; otherwise it resolves diffIndex to *)
(* the unique component c with variableIndexByComponent[c] <= diffIndex <  *)
(* variableIndexByComponent[c+1] and to the local index diffIndex -        *)
(* variableIndexByComponent[c] in 0..nVarByComponent[c]-1, also when       *)
(* components without variable parameters repeat offsets.                  *)
(***************************************************************************)
C9_DiffResolvesIndex ==
    ret.op = "diff" =>
        IF gammaIsVariable /\ ret.diffIndex = 0
        THEN ret.kind = "int" /\ ret.value = F(-1)
        ELSE LET c == ret.local.diffComponent
                 owners == {j \in Components :
                               /\ variableIndexByComponent[j] <= ret.diffIndex
                               /\ ret.diffIndex < variableIndexByComponent[j + 1]}
             IN  /\ ret.kind = "float"
                 /\ owners = {c}
                 /\ c = CHOOSE j \in Components :
                            /\ SliceStart(j) <= ret.diffIndex
                            /\ ret.diffIndex < SliceStart(j) + VariableCount(j)
                 /\ ret.local.diffParameterIndex
                        = ret.diffIndex - variableIndexByComponent[c]
                 /\ ret.local.diffParameterIndex \in 0..(nVarByComponent[c] - 1)

\* diffIndex is the first slot of a component that follows a component
\* without variable parameters, so that the offset searched for is repeated
C9_Witness ==
    /\ ret.op = "diff"
    /\ ret.kind = "float"
    /\ ret.local.diffComponent > 0
    /\ nVarByComponent[ret.local.diffComponent - 1] = 0
    /\ ret.local.diffParameterIndex = 0
    /\ variableIndexByComponent[ret.local.diffComponent] = ret.diffIndex

(***************************************************************************)
(* C10: nVariableParameter is the sum of the per-component variable        *)
(* counts plus 1 if gamma is variable, and parse_parameters splits a flat  *)
(* vector of that length into gamma (slot 0, only when gamma is variable)  *)
(* and K component slices, pairwise disjoint, in component order, each of  *)
(* length nVarByComponent[k], that together with the gamma slot cover      *)
(* every position exactly once.                                            *)
(***************************************************************************)
C10_ParameterLayout ==
    /\ \A j \in Components : nVarByComponent[j] = VariableCount(j)
    /\ nVariableParameter = CountBefore(nComponent) + GammaSlots
    /\ ret.op = "parse_parameters" =>
          LET slices == ret.value.parameterByComponent
          IN  /\ ret.value.gamma = IF gammaIsVariable THEN parameter[0] ELSE gamma
              /\ DOMAIN slices = Components
              /\ \A j \in Components :
                    /\ len(slices[j]) = nVarByComponent[j]
                    /\ \A i \in DOMAIN slices[j] :
                          slices[j][i] = parameter[SliceStart(j) + i]
              /\ \A pos \in DOMAIN parameter :
                    Cardinality({ji \in Components \X (0..3) :
                                    /\ ji[2] \in DOMAIN slices[ji[1]]
                                    /\ slices[ji[1]][ji[2]] = parameter[pos]})
                        + (IF gammaIsVariable /\ pos = 0 THEN 1 ELSE 0) = 1

\* gamma is variable, a component without variable parameters lies between
\* two components that have some, and the vector has been split
C10_Witness ==
    /\ ret.op = "parse_parameters"
    /\ gammaIsVariable
    /\ \E i, j, k \in Components :
          /\ i < j /\ j < k
          /\ len(ret.value.parameterByComponent[i]) > 0
          /\ len(ret.value.parameterByComponent[j]) = 0
          /\ len(ret.value.parameterByComponent[k]) > 1

(***************************************************************************)
(* C11: the cumulative offsets variableIndexByComponent that locate each   *)
(* component's slice are strictly increasing.                              *)
(***************************************************************************)
C11_OffsetsStrictlyIncreasing ==
    \A j \in Components :
        variableIndexByComponent[j] < variableIndexByComponent[j + 1]

\* C11, amended: the cumulative offsets variableIndexByComponent are
\* non-decreasing, and the offset increases from component j to j + 1
\* exactly when component j has at least one variable parameter
C11_OffsetsNonDecreasing ==
    /\ DOMAIN variableIndexByComponent = 0..nComponent
    /\ \A j \in Components :
          /\ variableIndexByComponent[j] <= variableIndexByComponent[j + 1]
          /\ variableIndexByComponent[j] < variableIndexByComponent[j + 1]
                <=> VariableCount(j) > 0

\* a constructed coordinate whose offsets repeat at a component without
\* variable parameters, after two steps of different size
C11_Witness ==
    /\ nComponent = 3
    /\ variableIndexByComponent[1] - variableIndexByComponent[0] = 4
    /\ variableIndexByComponent[2] - variableIndexByComponent[1] = 1
    /\ variableIndexByComponent[3] = variableIndexByComponent[2]

(***************************************************************************)
(* Reference quantities of the model's parameter layout                    *)
(***************************************************************************)
\* the variable parameters of coordinate i: its NaN entries and its gamma
CoordinateCount(i) ==
    LET f == hillModel.coordinates[i]
    IN  Cardinality({c \in (DOMAIN f.parameterValues) \X (0..3) :
                        isnan(f.parameterValues[c[1]][c[2]])})
          + (IF isnan(f.gamma) THEN 1 ELSE 0)

RECURSIVE CoordinateCountBefore(_)
CoordinateCountBefore(i) ==
    IF i = 0 THEN 0 ELSE CoordinateCountBefore(i - 1) + CoordinateCount(i - 1)

CalledModel == ret.op \in {"HillModel.__call__", "HillModel.dx"}

(***************************************************************************)
(* C12: for a HillModel with N coordinates, variableIndexByCoordinate has  *)
(* length N+1, starts at 0, is non-decreasing and ends at                  *)
(* nVariableParameter, the sum of the per-coordinate counts; in value and  *)
(* dx coordinate i is evaluated with the full state x and exactly the      *)
(* slice [variableIndexByCoordinate[i], variableIndexByCoordinate[i+1]) of *)
(* the parsed vector, so that changing an entry outside the slice changes  *)
(* nothing of what coordinate i is evaluated with.                         *)
(***************************************************************************)
C12_CoordinateSlices ==
    hillModel.constructed =>
        LET N == hillModel.dimension
            a == hillModel.variableIndexByCoordinate
        IN  /\ DOMAIN a = 0..N
            /\ a[0] = 0
            /\ \A i \in 0..(N - 1) : a[i] <= a[i + 1]
            /\ a[N] = hillModel.nVariableParameter
            /\ hillModel.nVariableParameter = CoordinateCountBefore(N)
            /\ \A i \in 0..(N - 1) :
                  hillModel.nVarByCoordinate[i] = CoordinateCount(i)
            /\ CalledModel =>
                  /\ ret.local.parameter = parameter
                  /\ DOMAIN ret.value = 0..(N - 1)
                  /\ \A i \in 0..(N - 1) :
                        /\ ret.value[i].coordinate = i
                        /\ ret.value[i].x = stateVector
                        /\ ret.value[i].parameter
                              = [k \in 0..(CoordinateCount(i) - 1) |->
                                    parameter[CoordinateCountBefore(i) + k]]
                        /\ \A pos \in (DOMAIN parameter) \ (a[i]..(a[i + 1] - 1)) :
                              unpack_variable_parameters(
                                  [parameter EXCEPT ![pos] = F(0)])[i]
                                  = ret.value[i].parameter

\* dx was called on a model of three coordinates: the first has several
\* variable parameters, the second none, the third some
C12_Witness ==
    /\ hillModel.constructed
    /\ ret.op = "HillModel.dx"
    /\ hillModel.dimension = 3
    /\ len(ret.value[0].parameter) > 1
    /\ len(ret.value[1].parameter) = 0
    /\ len(ret.value[2].parameter) > 0

(***************************************************************************)
(* Reference quantities of a Hill component                                *)
(***************************************************************************)
\* the names given as keyword arguments
Given(kwargs) == {kwargs[i].name : i \in DOMAIN kwargs}

FixedNames(c) == Members(c.fixedParameter)

VariableNames(c) == Members(c.variableParameters)

\* the position of the j-th name among the variable names of c, in the
\* order ell, delta, theta, hillCoefficient
LocalPosition(c, j) ==
    Cardinality({i \in 0..(j - 1) : PARAMETER_NAMES[i] \in VariableNames(c)})

\* the value of the j-th name of c at the vector p
OwnValue(c, j, p) ==
    IF PARAMETER_NAMES[j] \in FixedNames(c) THEN KwargValue(PARAMETER_NAMES[j])
    ELSE p[LocalPosition(c, j)]

(***************************************************************************)
(* C13: a HillComponent constructed with any subset of the four names      *)
(* fixed, in any order of the keyword arguments, has disjoint fixed and    *)
(* variable name sets whose union is the four names, and curry_parameters  *)
(* of a vector with one entry per variable name returns the 4-vector in    *)
(* which every fixed name holds its construction value and the i-th        *)
(* variable name in the order ell, delta, theta, hillCoefficient holds     *)
(* p[i].                                                                   *)
(***************************************************************************)
C13_FixedVariableCurry ==
    /\ ret.op = "HillComponent" /\ ret.kind = "HillComponent" =>
          /\ FixedNames(ret.value) = Given(ret.local.kwargs)
          /\ FixedNames(ret.value) \cap VariableNames(ret.value) = {}
          /\ FixedNames(ret.value) \cup VariableNames(ret.value) = Names
          /\ len(ret.value.variableParameters) = 4 - len(ret.local.kwargs)
    /\ component.constructed =>
          /\ FixedNames(component) \cap VariableNames(component) = {}
          /\ FixedNames(component) \cup VariableNames(component) = Names
    /\ ret.op = "curry_parameters"
          /\ len(ret.local.parameter) = len(component.variableParameters) =>
          /\ ret.kind = "ndarray"
          /\ DOMAIN ret.value = 0..3
          /\ \A j \in 0..3 :
                ret.value[j] = OwnValue(component, j, ret.local.parameter)

\* curry_parameters on a component with ell and theta fixed: the two
\* entries of the vector went to delta and hillCoefficient
C13_Witness ==
    /\ ret.op = "curry_parameters"
    /\ ret.kind = "ndarray"
    /\ FixedNames(component) = {"ell", "theta"}
    /\ len(ret.local.parameter) = 2
    /\ ret.value[1] = ret.local.parameter[0]
    /\ ret.value[3] = ret.local.parameter[1]

(***************************************************************************)
(* C14: after any sequence of constructions of other HillComponent         *)
(* instances, c.image(p) returns [ell, ell + delta] where ell and delta    *)
(* are c's own values: the stored value when fixed, the entry of p at c's  *)
(* own local position for that name when variable.                         *)
(***************************************************************************)
C14_ImageOwnValues ==
    ret.op = "image"
        /\ len(ret.local.parameter) = len(component.variableParameters) =>
        /\ ret.kind = "ndarray"
        /\ ret.value[0] = OwnValue(component, 0, ret.local.parameter)
        /\ ret.value[1] = FAdd(OwnValue(component, 0, ret.local.parameter),
                               OwnValue(component, 1, ret.local.parameter))

(***************************************************************************)
(* Reference quantities of the summand groups                              *)
(***************************************************************************)
\* the number of components in the groups before group m
RECURSIVE TypeBefore(_)
TypeBefore(m) == IF m = 0 THEN 0 ELSE TypeBefore(m - 1) + interactionType[m - 1]

\* group m of the partition: interactionType[m] consecutive components
Group(m) == {k \in Components : TypeBefore(m) <= k /\ k < TypeBefore(m + 1)}

\* the sum of the component values over a set of components
RECURSIVE SetSum(_)
SetSum(S) ==
    IF S = {} THEN F(0)
    ELSE LET k == CHOOSE x \in S : TRUE
         IN  FAdd(SetSum(S \ {k}), compVal[k])

\* the product of the group sums of the first n groups
RECURSIVE GroupProduct(_)
GroupProduct(n) ==
    IF n = 0 THEN F(1) ELSE FMul(GroupProduct(n - 1), SetSum(Group(n - 1)))

(***************************************************************************)
(* C15: for a coordinate whose interaction type sums to K and a vector of  *)
(* K component values, interaction_function returns the sum of all K       *)
(* values when q = 1 and otherwise the product over the q summand groups   *)
(* of the sum of the group's member values.                                *)
(***************************************************************************)
C15_InteractionFunction ==
    ret.op = "interaction_function" =>
        /\ ret.kind = "float"
        /\ ret.value = IF nSummand = 1 THEN SetSum(Components)
                       ELSE GroupProduct(nSummand)

\* interaction_function returned a value that is neither the sum of all
\* values nor zero, on a coordinate with a summand of two components
C15_Witness ==
    /\ ret.op = "interaction_function"
    /\ nSummand = 2
    /\ \E m \in 0..1 : interactionType[m] = 2
    /\ ret.value # SetSum(Components)
    /\ ret.value # F(0)

(***************************************************************************)
(* C16: for an interaction type of q positive integers summing to K,       *)
(* set_summand yields q groups that are pairwise disjoint contiguous index *)
(* ranges covering 0..K-1 in order with sizes equal to the partition       *)
(* entries, summand_index(k) returns the index of the unique group that    *)
(* contains k, and evaluate_summand(m) is the sum of the values of exactly *)
(* the components in group m.                                              *)
(***************************************************************************)
C16_SummandGroups ==
    /\ DOMAIN summand = 0..(nSummand - 1)
    /\ \A m \in DOMAIN summand :
          /\ len(summand[m]) = interactionType[m]
          /\ \A i \in DOMAIN summand[m] : summand[m][i] = TypeBefore(m) + i
          /\ \A m2 \in DOMAIN summand :
                m # m2 => Members(summand[m]) \cap Members(summand[m2]) = {}
    /\ UNION {Members(summand[m]) : m \in DOMAIN summand} = Components
    /\ ret.op = "summand_index" =>
          /\ ret.kind = "index"
          /\ {m \in 0..(nSummand - 1) : ret.diffIndex \in Group(m)} = {ret.value}
    /\ ret.op = "evaluate_summand" /\ ret.diffIndex # NoIndex =>
          /\ ret.kind = "float"
          /\ ret.value = SetSum(Group(ret.diffIndex))
    /\ ret.op = "evaluate_summand" /\ ret.diffIndex = NoIndex =>
          /\ ret.kind = "ndarray"
          /\ DOMAIN ret.value = 0..(nSummand - 1)
          /\ \A m \in 0..(nSummand - 1) : ret.value[m] = SetSum(Group(m))

\* evaluate_summand of the middle group of the partition [1, 2, 1] returned
\* the sum of two components, which is not the sum over all components
C16_Witness ==
    /\ ret.op = "evaluate_summand"
    /\ ret.diffIndex = 1
    /\ nSummand = 3
    /\ interactionType[1] = 2
    /\ ret.value = FAdd(compVal[1], compVal[2])
    /\ ret.value # SetSum(Components)

(***************************************************************************)
(* Reference quantities of the equilibrium interval                        *)
(***************************************************************************)
\* component k's own value of its c-th parameter: the stored value when
\* fixed, the entry of its own slice at its own local position when variable
OwnParameter(k, c) ==
    IF isnan(parameterValues[k][c])
    THEN parameter[SliceStart(k)
                     + Cardinality({i \in 0..(c - 1) : isnan(parameterValues[k][i])})]
    ELSE parameterValues[k][c]

OwnGamma == IF gammaIsVariable THEN parameter[0] ELSE gamma

(***************************************************************************)
(* C17: eq_interval(p) returns [p_int(ell_1..ell_K)/gamma,                 *)
(* p_int(ell_1+delta_1..ell_K+delta_K)/gamma] where gamma is p[0] when     *)
(* variable and the stored value otherwise and each ell_k, delta_k is      *)
(* component k's own value, including coordinates whose components have    *)
(* different sets of variable parameters.                                  *)
(***************************************************************************)
C17_EqInterval ==
    ret.op = "eq_interval" =>
        /\ ret.kind = "list"
        /\ ret.value[0]
              = FDiv(interaction_function([k \in Components |-> OwnParameter(k, 0)]),
                     OwnGamma)
        /\ ret.value[1]
              = FDiv(interaction_function(
                         [k \in Components |->
                             FAdd(OwnParameter(k, 0), OwnParameter(k, 1))]),
                     OwnGamma)

\* C17 on the coordinates whose components all have the same variable
\* parameters, where the accessors of the class are those of every component
C17_EqIntervalSameVariables ==
    (\A j, k \in Components :
        \A c \in 0..3 : isnan(parameterValues[j][c]) <=> isnan(parameterValues[k][c]))
        => C17_EqInterval

(***************************************************************************)
(* C18: constructing a HillCoordinate raises an error during construction  *)
(* whenever the interaction-type partition does not sum to K, the number   *)
(* of interaction signs, or the parameter, interactionSign and             *)
(* interactionIndex lists have mismatched lengths.                         *)
(***************************************************************************)
MismatchedArguments(args) ==
    LET K == len(args.interactionSign)
    IN  \/ IntSumTo(args.interactionType, len(args.interactionType)) # K
        \/ len(args.parameter) # K
        \/ len(args.interactionIndex) # K + 1

C18_ConstructionValidates ==
    ret.op = "HillCoordinate" /\ MismatchedArguments(ret.local) =>
        ret.kind # "None"

(***************************************************************************)
(* C19: constructing a HillComponent with a keyword argument whose name    *)
(* is not one of ell, delta, theta, hillCoefficient raises an error during *)
(* construction and yields no usable component: no instance is returned,   *)
(* and the instance c and the accessors of the class are left as they      *)
(* were.                                                                   *)
(***************************************************************************)
C19_UnknownNameRaises ==
    [][(ret'.op = "HillComponent" /\ ~(Given(ret'.local.kwargs) \subseteq Names)) =>
          /\ ret'.kind = "KeyError"
          /\ ret'.value = NoComponent
          /\ component' = component
          /\ accessor' = accessor]_vars

\* a constructor call raised on its third keyword argument, after two
\* arguments with known names
C19_Witness ==
    /\ ret.op = "HillComponent"
    /\ ret.kind = "KeyError"
    /\ len(ret.local.kwargs) = 3
    /\ ret.local.kwargs[2].name = "bogus"

(***************************************************************************)
(* C20: every call of diff_interaction whose combination of diffOrder,     *)
(* number of summands q and diffIndex has no implemented formula           *)
(* (diffOrder = 3 with q > 3, diffOrder > 3, or a single diffIndex with    *)
(* diffOrder >= 2) raises an error; no such call returns a value or        *)
(* returns nothing silently.                                               *)
(***************************************************************************)
NotImplemented ==
    /\ ret.op = "diff_interaction"
    /\ \/ ret.diffOrder = 3 /\ nSummand > 3
       \/ ret.diffOrder > 3
       \/ ret.diffIndex # NoIndex /\ ret.diffOrder >= 2

C20_NotImplementedRaises ==
    NotImplemented => ret.kind \notin {"None", "ndarray", "float", "int", "tuple"}

\* C20 without the case diffOrder > 3 of a call for the full tensor, which
\* no branch of the code handles
C20_NotImplementedRaisesUpToOrderThree ==
    NotImplemented /\ ~(ret.diffIndex = NoIndex /\ ret.diffOrder > 3)
        => ret.kind = "KeyboardInterrupt"

(***************************************************************************)
(* Reference quantities of the equilibrium search                          *)
(***************************************************************************)
CalledFindEquilibria == ret.op = "find_equilibria"

\* the grid points whose result reports success and is strictly positive
Survivors(results) ==
    {j \in DOMAIN results :
        /\ results[j].success
        /\ \A i \in DOMAIN results[j].x : FLess(F(0), results[j].x[i])}

\* the rounded roots of the survivors
RoundedRoots(results, digits) ==
    {[c \in DOMAIN results[j].x |-> round(results[j].x[c], digits)] :
        j \in Survivors(results)}

\* the orders in which the grid points can be solved
Orders(n) == Permutations(0..(n - 1))

(***************************************************************************)
(* C21: when no grid point yields a solver result that both reports        *)
(* success and is strictly positive in every coordinate, find_equilibria   *)
(* returns an empty result and does not raise an error.                    *)
(***************************************************************************)
C21_NoEquilibriumIsNotAnError ==
    CalledFindEquilibria /\ Survivors(ret.local.results) = {} =>
        /\ ret.kind = "ndarray"
        /\ len(ret.value) = 0

(***************************************************************************)
(* C22: whatever the root finder returns on each call, every column of the *)
(* matrix find_equilibria returns is strictly positive in every coordinate *)
(* and is the output of a solver call that reported success, and there is  *)
(* exactly one column per distinct rounded root that survived the filter.  *)
(***************************************************************************)
C22_ColumnsArePositiveRoots ==
    CalledFindEquilibria /\ ret.kind = "ndarray" =>
        /\ \A j \in DOMAIN ret.value :
              /\ \A i \in DOMAIN ret.value[j] : FLess(F(0), ret.value[j][i])
              /\ ret.local.polish # "fails"
        /\ len(ret.value)
              = Cardinality(RoundedRoots(ret.local.results, ret.local.uniqueRootDigits))

\* the part of C22 that counts the columns
C22_OneColumnPerRoundedRoot ==
    CalledFindEquilibria /\ ret.kind = "ndarray" =>
        len(ret.value)
            = Cardinality(RoundedRoots(ret.local.results, ret.local.uniqueRootDigits))

(***************************************************************************)
(* C23: for a deterministic solver, find_equilibria returns the same       *)
(* matrix, columns and order, for every order in which the grid points are *)
(* solved.                                                                 *)
(***************************************************************************)
C23_OrderOfSolvingIsIrrelevant ==
    CalledFindEquilibria =>
        \A o \in Orders(len(ret.local.results)) :
            LET out == find_equilibria([i \in DOMAIN o |-> ret.local.results[o[i]]],
                                       ret.local.polish, ret.local.uniqueRootDigits)
            IN  /\ out.kind = ret.kind
                /\ out.value = ret.value

\* three different rounded roots were found, the largest first, and one of
\* them twice
C23_Witness ==
    /\ CalledFindEquilibria
    /\ ret.kind = "ndarray"
    /\ len(ret.value) = 3
    /\ len(ret.local.results) = 4
    /\ Survivors(ret.local.results) = 0..3
    /\ ret.local.polish = "same"
    /\ ret.value[2] = [c \in DOMAIN ret.local.results[0].x |->
                          round(ret.local.results[0].x[c], ret.local.uniqueRootDigits)]

(***************************************************************************)
(* Reference quantities of the toggle switch                               *)
(***************************************************************************)
\* the Hill-coefficient slots: the last slot of each coordinate's slice
HillSlots == {CoordinateCountBefore(i + 1) - 1 : i \in 0..(hillModel.dimension - 1)}

(***************************************************************************)
(* C24: for every ToggleSwitch, parse_parameter(rho, p) returns a vector   *)
(* whose length is the sum of the two coordinates' variable-parameter      *)
(* counts, that holds rho at the last slot of each coordinate's slice and  *)
(* the entries of p, in order, at all other positions; nVariableParameter  *)
(* equals 1 + len(p).                                                      *)
(***************************************************************************)
C24_ToggleParseParameter ==
    ret.op = "ToggleSwitch.parse_parameter" =>
        /\ ret.kind = "ndarray"
        /\ DOMAIN ret.value = 0..(CoordinateCount(0) + CoordinateCount(1) - 1)
        /\ \A pos \in DOMAIN ret.value :
              ret.value[pos]
                  = IF pos \in HillSlots THEN ret.local.rho
                    ELSE ret.local.p[pos - Cardinality({h \in HillSlots : h < pos})]
        /\ hillModel.nVariableParameter = 1 + len(ret.local.p)

\* C24 for the class ToggleSwitch of src/models.py
C24_ToggleParseParameterOfModels ==
    IsToggleSwitch /\ hillModel.class = "models" => C24_ToggleParseParameter

\* C24 for both classes, without the count nVariableParameter
C24_ToggleParseParameterLayout ==
    ret.op = "ToggleSwitch.parse_parameter" =>
        /\ ret.kind = "ndarray"
        /\ DOMAIN ret.value = 0..(CoordinateCount(0) + CoordinateCount(1) - 1)
        /\ \A pos \in DOMAIN ret.value :
              ret.value[pos]
                  = IF pos \in HillSlots THEN ret.local.rho
                    ELSE ret.local.p[pos - Cardinality({h \in HillSlots : h < pos})]

(***************************************************************************)
(* C25: for every HillComponent and every pair (i, j) of local indices of  *)
(* variable parameters, diff2 called with (i, j) and with (j, i) takes the *)
(* same formula branch and returns the same result; so does dxdiff2.       *)
(***************************************************************************)
CalledMixed ==
    /\ ret.op \in {"diff2", "dxdiff2"}
    /\ len(ret.local.parameter) = len(component.variableParameters)

\* the same call with the pair in the other order
Transposed ==
    LET l == ret.local
        diffIndex == [i \in 0..1 |-> l.diffIndex[1 - i]]
    IN  IF ret.op = "diff2"
        THEN diff2(component, l.container, diffIndex, l.x, l.parameter)
        ELSE dxdiff2(component, l.container, diffIndex, l.x, l.parameter)

C25_MixedPartialsSymmetric ==
    CalledMixed =>
        /\ ret.kind = "float"
        /\ Transposed.kind = "float"
        /\ Transposed.value = ret.value

\* C25 for an index pair held in a numpy array, except for the pair of theta
\* and hillCoefficient
C25_MixedPartialsSymmetricWhereDefined ==
    /\ CalledMixed
    /\ ret.local.container = "ndarray"
    /\ {component.variableParameters[ret.local.diffIndex[i]] : i \in 0..1}
           # {"theta", "hillCoefficient"}
    => /\ ret.kind = "float"
       /\ Transposed.kind = "float"
       /\ Transposed.value = ret.value

\* for the pair of theta and hillCoefficient both orders raise TypeError
C25_ThetaHillCoefficientRaises ==
    /\ CalledMixed
    /\ {component.variableParameters[ret.local.diffIndex[i]] : i \in 0..1}
           = {"theta", "hillCoefficient"}
    => /\ ret.kind = "TypeError"
       /\ Transposed.kind = "TypeError"

(***************************************************************************)
(* C26: every evaluation call (value, dx, dx2, diff, eq_interval, image,   *)
(* curry_parameters) on a constructed component, coordinate or model, with *)
(* any parameter vector, leaves every stored attribute unchanged, so the   *)
(* same call made again returns the same result.                           *)
(***************************************************************************)
EvaluationCalls ==
    {"curry_parameters", "image", "interaction_function", "dx", "dx2", "diff",
     "eq_interval", "HillModel.__call__", "HillModel.dx"}

\* the result of making the call of ret once more
Repeated ==
    IF ret.op = "curry_parameters" THEN curry_parameters(component, ret.local.parameter)
    ELSE IF ret.op = "image" THEN image(component, accessor, ret.local.parameter)
    ELSE IF ret.op = "dx" THEN dx
    ELSE IF ret.op = "dx2" THEN dx2
    ELSE IF ret.op = "eq_interval" THEN eq_interval
    ELSE ret

GammaSlot == gammaIsVariable /\ ret.diffIndex = 0

C27_DxdiffResolvesAsDiff ==
    ret.op = "dxdiff" =>
        IF GammaSlot
        THEN ret.kind = "ndarray"
        ELSE /\ ret.local.diffComponent = diff(ret.diffIndex, F(1)).local.diffComponent
             /\ ret.local.diffParameterIndex
                   = diff(ret.diffIndex, F(1)).local.diffParameterIndex
             /\ ret.local.passed.diffIndex = int(ret.local.diffParameterIndex)

\* the resolution of a diffIndex that is not the gamma slot is that of diff
C27_SameResolutionOffTheGammaSlot ==
    ret.op = "dxdiff" /\ ~GammaSlot =>
        /\ ret.local.diffComponent = diff(ret.diffIndex, F(1)).local.diffComponent
        /\ ret.local.diffParameterIndex
              = diff(ret.diffIndex, F(1)).local.diffParameterIndex

\* diff is handed its arguments in the order of dxdiff's, so no call of
\* HillCoordinate.dxdiff returns
C27_DxdiffAlwaysRaises ==
    ret.op = "dxdiff" => ret.kind \in {"StopIteration", "IndexError", "TypeError"}

(***************************************************************************)
(* C28: for a coordinate of an N-dimensional model with K components,      *)
(* HillCoordinate.dxdiff returns a gradient over the N state variables:    *)
(* the entries zeroed and replaced are those at the global indices         *)
(* interactionIndex[j] of the components j of the target's summand, the    *)
(* entry of the target component k is d2H_k/dx dparam times the product of *)
(* the summand sums of the other summands, and every other entry is the dx *)
(* entry scaled by (dH_k/dparam) / (sum of the summand containing k).      *)
(***************************************************************************)
\* the gradient of the claim; DxHp is the mixed partial of component k
MixedGradient(k, dpH, DxHp) ==
    LET own == {interactionIndex[summand[summand_index(k)][i]] :
                   i \in DOMAIN summand[summand_index(k)]}
        others == ProductExcluding({SummandOf(k)})
    IN  [g \in 0..(dimension - 1) |->
            IF g = interactionIndex[k] THEN FMul(DxHp, others)
            ELSE IF g \in own THEN F(0)
            ELSE FMul(dx.value[g], FDiv(dpH, SummandSum(SummandOf(k))))]

C28_DxdiffGradient ==
    ret.op = "dxdiff" /\ ~GammaSlot =>
        /\ ret.kind = "ndarray"
        /\ \E dpH \in {F(1), F(3)} :
              ret.value = MixedGradient(ret.local.diffComponent, dpH, F(1))

(***************************************************************************)
(* C29: for every ToggleSwitch, diff(x, rho, p) obtains the full parameter *)
(* gradient from the base HillModel and returns a matrix of dimension rows *)
(* and nVariableParameter columns (column 0 the sum over the columns at    *)
(* hillIndex, columns 1.. the columns at nonhillIndex in order); hillIndex *)
(* and nonhillIndex are disjoint and together cover every slot of the full *)
(* parameter vector.                                                       *)
(***************************************************************************)
FullSlots == 0..(CoordinateCount(0) + CoordinateCount(1) - 1)

HillIndexPartition ==
    /\ Members(hillModel.hillIndex) \cap Members(hillModel.nonhillIndex) = {}
    /\ Members(hillModel.hillIndex) \cup Members(hillModel.nonhillIndex) = FullSlots

C29_ToggleDiff ==
    ret.op = "ToggleSwitch.diff" =>
        /\ ret.kind = "ndarray"
        /\ DOMAIN ret.value
              = (0..(hillModel.dimension - 1)) \X (0..(hillModel.nVariableParameter - 1))
        /\ HillIndexPartition

\* the index lists of the class of src/models.py split the slots of the
\* full vector, and hillIndex holds the Hill-coefficient slots
C29_HillIndexPartition ==
    IsToggleSwitch /\ hillModel.class = "models" =>
        /\ HillIndexPartition
        /\ Members(hillModel.hillIndex) = HillSlots
        /\ \A i, j \in DOMAIN hillModel.nonhillIndex :
              i < j => hillModel.nonhillIndex[i] < hillModel.nonhillIndex[j]

\* HillModel defines no diff, so the call never returns
C29_ToggleDiffRaises ==
    ret.op = "ToggleSwitch.diff" => ret.kind = "AttributeError"

(***************************************************************************)
(* C30: when two or more components of a HillCoordinate read the same      *)
(* global variable g, the entry of dx at g is the sum of the chain-rule    *)
(* terms (dp/dH_k)*(dH_k/dx) of all components k with                      *)
(* interactionIndex[k] = g (minus gamma if g is selfIndex), not the term   *)
(* of only one of them.                                                    *)
(***************************************************************************)
ReadersOf(g) == {k \in Components : interactionIndex[k] = g}

\* the sum of the chain-rule terms of the components that read g
ChainSum(g) ==
    npsum([k \in 0..(nComponent - 1) |->
              IF k \in ReadersOf(g) THEN ChainTerm(k) ELSE F(0)])

C30_SharedVariableAddsUp ==
    ret.op = "dx" =>
        /\ ret.kind = "ndarray"
        /\ \A g \in 0..(dimension - 1) :
              Cardinality(ReadersOf(g)) >= 2 =>
                  ret.value[g] = FSub(ChainSum(g),
                                      IF g = index THEN parse_gamma ELSE F(0))

\* the same statement where no summand sum is zero
C30_SharedVariableAddsUpNonzeroSummands ==
    (\A m \in DOMAIN summand : SummandSum(m) # F(0)) => C30_SharedVariableAddsUp

\* what dx holds at a shared variable: the term of the last reader alone
C30_LastReaderOnly ==
    (ret.op = "dx" /\ \A m \in DOMAIN summand : SummandSum(m) # F(0)) =>
        /\ ret.kind = "ndarray"
        /\ \A g \in 0..(dimension - 1) :
              Cardinality(ReadersOf(g)) >= 2 =>
                  ret.value[g]
                      = FSub(ChainTerm(CHOOSE k \in ReadersOf(g) :
                                           \A j \in ReadersOf(g) : j <= k),
                             IF g = index THEN parse_gamma ELSE F(0))

====
